---- MODULE Spec2Model ----
(***************************************************************************)
(* Annealed flow transport: the per-temperature-step update machinery     *)
(* (annealing schedule, reweighting, resampling, Markov kernel) of        *)
(* annealed_flow_transport, as a state machine over exact arithmetic.     *)
(*                                                                         *)
(* Number representation.                                                  *)
(*  - Log-densities, log-det-Jacobians and deltas are integers, in units  *)
(*    of ln 2.                                                             *)
(*  - Log-weights and every other log-domain quantity that goes through   *)
(*    exp / logsumexp are pairs <<n, d>> standing for ln(n / d), kept in  *)
(*    lowest terms: <<0, 1>> is -inf, <<1, 0>> is +inf, <<0, 0>> is NaN.  *)
(*    Addition in the log domain is multiplication of the fractions,      *)
(*    logsumexp is their sum.                                              *)
(*  - Plain (non-log) fractions such as beta, softmax weights and         *)
(*    acceptance rates are pairs <<n, d>> too.                             *)
(*  - A particle is an integer (sample shape (1,)); a batch is a sequence *)
(*    of particles.                                                        *)
(*  - A random key is the path of splits that leads to it from            *)
(*    PRNGKey(seed); draws are a fixed function of the key.               *)
(***************************************************************************)
EXTENDS Integers, Sequences, FiniteSets, TLC

\* ------------------------------------------------------------------ bounds

\* Number of particles in a batch.
NumBatch == 2

\* Number of seeds PRNGKey is called with.
NumSeeds == 2

\* Calls of stand-alone primitives made on one pipeline.
MaxCalls == 1

\* ------------------------------------------------------------ arithmetic

Abs(x) == IF x < 0 THEN -x ELSE x

\* The sequence <<F(1), ..., F(n)>>.
RECURSIVE MapSeq(_, _)
MapSeq(F(_), n) == IF n = 0 THEN <<>> ELSE Append(MapSeq(F, n - 1), F(n))

BoolInt(b) == IF b THEN 1 ELSE 0

RECURSIVE GCD(_, _)
GCD(a, b) == IF b = 0 THEN a ELSE GCD(b, a % b)

RECURSIVE Pow2(_)
Pow2(k) == IF k = 0 THEN 1 ELSE 2 * Pow2(k - 1)

RECURSIVE Pow3(_)
Pow3(k) == IF k = 0 THEN 1 ELSE 3 * Pow3(k - 1)

\* n / d in lowest terms, for n >= 0 and d >= 0.
Reduce(n, d) ==
    IF n = 0 /\ d = 0 THEN <<0, 0>>
    ELSE IF d = 0 THEN <<1, 0>>
    ELSE IF n = 0 THEN <<0, 1>>
    ELSE LET g == GCD(n, d) IN <<n \div g, d \div g>>

NegInf == <<0, 1>>
PosInf == <<1, 0>>
NaN == <<0, 0>>

IsNaN(a) == a = NaN
IsFinite(a) == a[1] > 0 /\ a[2] > 0

\* The log-domain value of an integer number v of ln 2 units: ln(2^v).
LogFromInt(v) == IF v >= 0 THEN <<Pow2(v), 1>> ELSE <<1, Pow2(-v)>>

\* jnp.log of the fraction p / q (q > 0): NaN for a negative argument.
jnp_log(p, q) == IF p < 0 THEN NaN ELSE Reduce(p, q)

\* a + b, a - b, -a and 2 * a in the log domain.
LogAdd(a, b) ==
    LET g1 == GCD(a[1], b[2])
        g2 == GCD(b[1], a[2])
    IN IF g1 = 0 \/ g2 = 0 THEN Reduce(a[1] * b[1], a[2] * b[2])
       ELSE Reduce((a[1] \div g1) * (b[1] \div g2), (a[2] \div g2) * (b[2] \div g1))
LogNeg(a) == <<a[2], a[1]>>
LogSub(a, b) == LogAdd(a, LogNeg(b))
LogTwice(a) == LogAdd(a, a)

\* a < b in the log domain; every comparison with NaN is false.
LogLess(a, b) == ~IsNaN(a) /\ ~IsNaN(b) /\ a[1] * b[2] < b[1] * a[2]

\* Sum and order of plain fractions.
FracAdd(a, b) ==
    LET g == GCD(a[2], b[2])
    IN Reduce(a[1] * (b[2] \div g) + b[1] * (a[2] \div g), (a[2] \div g) * b[2])
FracLess(a, b) == a[1] * b[2] < b[1] * a[2]

RECURSIVE FracSum(_)
FracSum(s) == IF s = <<>> THEN <<0, 1>> ELSE FracAdd(s[1], FracSum(Tail(s)))

RECURSIVE SeqSum(_)
SeqSum(s) == IF s = <<>> THEN 0 ELSE s[1] + SeqSum(Tail(s))

\* jax.scipy.special.logsumexp: the log of the sum of the exponentials.
logsumexp(a) ==
    IF \E i \in DOMAIN a : IsNaN(a[i]) THEN NaN
    ELSE IF \E i \in DOMAIN a : a[i] = PosInf THEN PosInf
    ELSE FracSum(a)

\* jax.nn.log_softmax: a - logsumexp(a), elementwise.
log_softmax(a) == MapSeq(LAMBDA i : LogSub(a[i], logsumexp(a)), Len(a))

\* ------------------------------------------------------------ random keys

\* jax.random.PRNGKey(seed).
PRNGKey(seed) == << <<0, seed>> >>

\* jax.random.split(key, num): num children, the i-th named by (num, i).
Split(key, num) == MapSeq(LAMBDA i : Append(key, <<num, i - 1>>), num)

RECURSIVE KeyHash(_)
KeyHash(key) ==
    IF key = <<>> THEN 7
    ELSE LET last == key[Len(key)]
             front == SubSeq(key, 1, Len(key) - 1)
         IN (KeyHash(front) * 31 + last[1] * 5 + last[2] + 1) % 1009

NormalValues == <<-2, 0, 2>>
ExponentialValues == <<0, 1, 4>>

\* Resolution of the uniform draw: u is a multiple of 1 / UniformGrid in [0, 1).
UniformGrid == 4

\* jax.random.normal(key, shape=(n,)).
random_normal(key, n) ==
    MapSeq(LAMBDA i : NormalValues[((KeyHash(key) \div Pow3(i - 1)) % 3) + 1], n)

\* jax.random.exponential(key, shape=(n,)).
random_exponential(key, n) ==
    MapSeq(LAMBDA i : ExponentialValues[((KeyHash(key) \div Pow3(i - 1)) % 3) + 1], n)

\* jax.random.uniform(key, (1,)): a fraction in [0, 1).
random_uniform(key) == <<KeyHash(key) % UniformGrid, UniformGrid>>

RemoveAt(s, j) == SubSeq(s, 1, j - 1) \o SubSeq(s, j + 1, Len(s))

RECURSIVE PermFromCode(_, _)
PermFromCode(code, items) ==
    IF items = <<>> THEN <<>>
    ELSE LET j == (code % Len(items)) + 1
         IN <<items[j]>> \o PermFromCode(code \div Len(items), RemoveAt(items, j))

\* The index vector jax.random.permutation(key, x) shuffles x with: it
\* depends on the key and on the length of x only.
permutation_indices(key, n) == PermFromCode(KeyHash(key), MapSeq(LAMBDA i : i, n))

\* jax.random.permutation(key, x).
random_permutation(key, x) ==
    LET ind == permutation_indices(key, Len(x)) IN MapSeq(LAMBDA i : x[ind[i]], Len(x))

\* -------------------------------------------------------------- resampling

Min(a, b) == IF a < b THEN a ELSE b

RECURSIVE LogMax(_)
LogMax(a) ==
    IF Len(a) = 1 THEN a[1]
    ELSE LET m == LogMax(Tail(a)) IN IF LogLess(a[1], m) THEN m ELSE a[1]

\* resampling._softmax: w = exp(lw - lw.max()); w / w.sum(), plain fractions.
softmax_(lw) ==
    LET w == MapSeq(LAMBDA i : LogSub(lw[i], LogMax(lw)), Len(lw))
        total == FracSum(w)
    IN MapSeq(LAMBDA i : LogSub(w[i], total), Len(lw))

\* jnp.cumsum of a vector of fractions.
cumsum(w) == MapSeq(LAMBDA i : FracSum(SubSeq(w, 1, i)), Len(w))

\* jnp.searchsorted(a, v), side='left': the number of entries of a that are
\* strictly below v (a 0-based insertion index).
searchsorted(a, v) == Cardinality({j \in DOMAIN a : FracLess(a[j], v)})

\* log ESS = 2 * logsumexp(log_weights) - logsumexp(2 * log_weights).
log_effective_sample_size_single(log_weights) ==
    LET first_term == logsumexp(log_weights)
        second_term == logsumexp(MapSeq(LAMBDA i : LogTwice(log_weights[i]), Len(log_weights)))
    IN LogSub(first_term, second_term)
log_effective_sample_size(log_weights) ==
    LET first_term == LogTwice(logsumexp(log_weights))
        second_term == logsumexp(MapSeq(LAMBDA i : LogTwice(log_weights[i]), Len(log_weights)))
    IN LogSub(first_term, second_term)

\* essl: the ESS in the weight domain, (sum w)^2 / sum(w^2) for
\* w = exp(lw - lw.max()), a plain fraction.
essl(lw) ==
    LET w == MapSeq(LAMBDA i : LogSub(lw[i], LogMax(lw)), Len(lw))
        total == FracSum(w)
    IN LogSub(LogTwice(total), FracSum(MapSeq(LAMBDA i : LogTwice(w[i]), Len(w))))

\* systematic_draws with the samples permuted under another key than the
\* log-weights.
systematic_draws_two_keys(key, N) ==
    LET rng == Split(key, 2)[1]
        rng_ == Split(key, 2)[2]
        rng2_ == Split(rng, 2)[2]
    IN [ind |-> permutation_indices(rng_, N),
        ind_samples |-> permutation_indices(rng, N),
        u |-> random_uniform(rng2_),
        keys |-> <<rng_, rng2_>>]

\* The outcomes of the random calls systematic_resampling makes with key:
\* the index vectors of the two permutations, of the log-weights and of the
\* samples (both with key rng_ of the first split), and the uniform variate
\* (key rng_ of the second split).
systematic_draws(key, N) ==
    LET rng == Split(key, 2)[1]
        rng_ == Split(key, 2)[2]
        rng2_ == Split(rng, 2)[2]
    IN [ind |-> permutation_indices(rng_, N),
        ind_samples |-> permutation_indices(rng_, N),
        u |-> random_uniform(rng2_),
        keys |-> <<rng_, rng2_>>]

\* The log-weights systematic_resampling returns: jnp.zeros(N) - jnp.log(N).
resampled_log_weights_zeros(N) == MapSeq(LAMBDA i : <<1, 1>>, N)
resampled_log_weights(N) == MapSeq(LAMBDA i : LogSub(<<1, 1>>, jnp_log(N, 1)), N)

\* sorted_uniform = (jax.random.uniform(rng_, (1,)) + jnp.arange(N)) / N.
sorted_uniform_unscaled(u, N) == MapSeq(LAMBDA i : <<u[1] + (i - 1) * u[2], u[2]>>, N)
sorted_uniform(u, N) == MapSeq(LAMBDA i : <<u[1] + (i - 1) * u[2], u[2] * N>>, N)

\* systematic_resampling once its random calls have returned draws: permute
\* weights and samples with their index vectors, pick the particles at the
\* stratified points (u + i) / N by inverse-CDF search; the new weights are
\* zeros(N) - log(N).
systematic_resampling_with(draws, log_weights, samples) ==
    LET N == Len(log_weights)
        p_log_weights == MapSeq(LAMBDA i : log_weights[draws.ind[i]], N)
        p_samples == MapSeq(LAMBDA i : samples[draws.ind_samples[i]], N)
        u == draws.u
        points == sorted_uniform(u, N)
        cdf == cumsum(softmax_(p_log_weights))
        new_idx == MapSeq(LAMBDA i : searchsorted(cdf, points[i]), N)
        \* an out-of-range gather index is clamped to the last row
        taken == MapSeq(LAMBDA i : p_samples[Min(new_idx[i], N - 1) + 1], N)
    IN [samples |-> taken,
        log_weights |-> resampled_log_weights(N),
        p_log_weights |-> p_log_weights,
        p_samples |-> p_samples,
        u |-> u,
        new_idx |-> new_idx,
        keys |-> draws.keys]

systematic_resampling(key, log_weights, samples) ==
    systematic_resampling_with(systematic_draws(key, Len(log_weights)),
                               log_weights, samples)

\* The tuple the non-resampling branch returns for x = (key, log_weights,
\* samples): (x[2], x[1]), 0-based.
lambda_no_resample(x) == <<x[3], x[2]>>

\* The tuple the resampling branch returns: systematic_resampling(*x), once
\* its random calls have returned draws.
lambda_resample_with(draws, x) ==
    LET r == systematic_resampling_with(draws, x[2], x[3])
    IN <<r.samples, r.log_weights>>

lambda_resample(x) == lambda_resample_with(systematic_draws(x[1], Len(x[2])), x)

\* simple_resampling once jax.random.categorical has returned indices
\* (0-based): the particles at the indices, and the weights
\* -log(N) * ones_like(log_weights).
simple_resampling_with(indices, log_weights, samples) ==
    LET num_batch == Len(log_weights)
    IN [samples |-> MapSeq(LAMBDA i : samples[indices[i] + 1], num_batch),
        log_weights |-> MapSeq(LAMBDA i : LogNeg(jnp_log(num_batch, 1)), num_batch),
        indices |-> indices]

\* log_weights.shape[0] * resample_threshold, the threshold a fraction.
threshold_sample_size_unscaled(log_weights, resample_threshold) == resample_threshold
threshold_sample_size(log_weights, resample_threshold) ==
    <<Len(log_weights) * resample_threshold[1], resample_threshold[2]>>

\* The predicate of the jax.lax.cond: log_ess < log(threshold_sample_size).
resample_cond_or_equal(log_weights, resample_threshold) ==
    LET t == threshold_sample_size(log_weights, resample_threshold)
        log_ess == log_effective_sample_size(log_weights)
        log_t == jnp_log(t[1], t[2])
    IN LogLess(log_ess, log_t) \/ (IsFinite(log_ess) /\ log_ess = log_t)
resample_cond(log_weights, resample_threshold) ==
    LET t == threshold_sample_size(log_weights, resample_threshold)
    IN LogLess(log_effective_sample_size(log_weights), jnp_log(t[1], t[2]))

\* Resample when the ESS is below the threshold; the result is the pair
\* out = (samples, log_weights); args records what the call received. draws
\* are the outcomes of the random calls the resampling branch makes.
optionally_resample_with(draws, key, log_weights, samples, resample_threshold) ==
    LET x == <<key, log_weights, samples>>
        pred == resample_cond(log_weights, resample_threshold)
    IN [resampled |-> pred,
        out |-> IF pred THEN lambda_resample_with(draws, x) ELSE lambda_no_resample(x),
        args |-> [key |-> key, log_weights |-> log_weights, samples |-> samples,
                  resample_threshold |-> resample_threshold]]

optionally_resample(key, log_weights, samples, resample_threshold) ==
    optionally_resample_with(systematic_draws(key, Len(log_weights)), key,
                             log_weights, samples, resample_threshold)

\* --------------------------------------------------------------- densities

\* Total number of temperatures: config.base_steps * config.steps_mult + 1.
num_temps == 3

\* The unnormalized log-density of one particle under provider d, in ln 2
\* units: a Laplace density centred at d.loc, or a constant density.
log_pdf(d, x) ==
    IF d.density = "Laplace" THEN -2 * Abs(x - d.loc) ELSE 0

\* The derivative of log_pdf with respect to the particle, as jax.vjp gives it.
grad_log_pdf(d, x) ==
    IF d.density = "Laplace"
    THEN (IF x > d.loc THEN -2 ELSE IF x < d.loc THEN 2 ELSE 0)
    ELSE 0

\* LogDensity.evaluate_log_density as every batched provider implements it:
\* density_state += self._is_target * x.shape[0].
evaluate_log_density_always_counts(d, x, density_state) ==
    [output |-> MapSeq(LAMBDA i : log_pdf(d, x[i]), Len(x)),
     density_state |-> density_state + Len(x)]
evaluate_log_density_uncounts(d, x, density_state) ==
    [output |-> MapSeq(LAMBDA i : log_pdf(d, x[i]), Len(x)),
     density_state |-> density_state - BoolInt(d.is_target) * Len(x)]
evaluate_log_density(d, x, density_state) ==
    [output |-> MapSeq(LAMBDA i : log_pdf(d, x[i]), Len(x)),
     density_state |-> density_state + BoolInt(d.is_target) * Len(x)]

\* BrownianMissingMiddleScales.evaluate_log_density on an input of shape
\* x_shape: a rank-1 input is one unbatched particle and gives one scalar, a
\* rank-2 input gives one value per row. Only the shape of the output and
\* the counter are modelled.
\* The sample shape BrownianMissingMiddleScales asserts: (32,).
BrownianDim == 32

brownian_evaluate_log_density(is_target, x_shape, density_state) ==
    IF Len(x_shape) = 1
    THEN [output_shape |-> <<>>,
          density_state |-> density_state + BoolInt(is_target)]
    ELSE [output_shape |-> <<x_shape[1]>>,
          density_state |-> density_state + BoolInt(is_target) * x_shape[1]]

\* run_experiment: the initial density is built with is_target=False, the
\* final one with is_target=True; prepare_outer_loop hands both to the
\* annealing schedule along with num_temps.
run_experiment_densities(initial_density, initial_loc, final_density, final_loc) ==
    [initial |-> [density |-> initial_density, loc |-> initial_loc,
                  is_target |-> FALSE],
     final |-> [density |-> final_density, loc |-> final_loc, is_target |-> TRUE],
     num_temps |-> num_temps]

\* GeometricAnnealingSchedule.__init__ for an experiment with another number
\* of temperatures.
density_by_step(densities, total_num_temps) ==
    [densities EXCEPT !.num_temps = total_num_temps]

\* ------------------------------------------------------- annealing schedule

\* get_beta clamped to [0, 1].
get_beta_clamped(self, step) ==
    LET final_step == self.num_temps - 1
    IN IF step < 0 THEN <<0, final_step>>
       ELSE IF step > final_step THEN <<final_step, final_step>>
       ELSE <<step, final_step>>

\* get_beta dividing by num_temps instead of num_temps - 1.
get_beta_by_num_temps(self, step) == <<step, self.num_temps>>

\* GeometricAnnealingSchedule.get_beta: step / (num_temps - 1), a fraction.
get_beta(self, step) ==
    LET final_step == self.num_temps - 1 IN <<step, final_step>>

\* (1 - beta) * a + beta * b for integers a, b and beta = n / d.
Interpolate(beta, a, b) == ((beta[2] - beta[1]) * a + beta[1] * b) \div beta[2]

\* The schedule skipping the final density where its coefficient is 0.
GeometricAnnealingSchedule_skipping(ld, step, samples, density_state) ==
    LET final == IF step = 0
                 THEN [output |-> MapSeq(LAMBDA i : 0, Len(samples)),
                       density_state |-> density_state]
                 ELSE evaluate_log_density(ld.final, samples, density_state)
        initial == evaluate_log_density(ld.initial, samples, final.density_state)
        beta == get_beta(ld, step)
    IN [values |-> MapSeq(LAMBDA i :
                       Interpolate(beta, initial.output[i], final.output[i]), Len(samples)),
        density_state |-> initial.density_state,
        beta |-> beta,
        evaluated |-> IF step = 0 THEN << <<"initial", density_state>> >>
                      ELSE << <<"final", density_state>>,
                              <<"initial", final.density_state>> >>]

\* GeometricAnnealingSchedule.__call__: the final density is evaluated first,
\* the initial one second, the counter threaded through both.
GeometricAnnealingSchedule(ld, step, samples, density_state) ==
    LET final == evaluate_log_density(ld.final, samples, density_state)
        initial == evaluate_log_density(ld.initial, samples, final.density_state)
        beta == get_beta(ld, step)
    IN [values |-> MapSeq(LAMBDA i :
                       Interpolate(beta, initial.output[i], final.output[i]), Len(samples)),
        density_state |-> initial.density_state,
        beta |-> beta,
        evaluated |-> << <<"final", density_state>>,
                         <<"initial", final.density_state>> >>]

\* grad_log_density dropping the counter of its forward pass.
grad_log_density_uncounted(ld, step, samples, density_state) ==
    LET fwd == GeometricAnnealingSchedule(ld, step, samples, density_state)
    IN [grad |-> MapSeq(LAMBDA i :
                     Interpolate(fwd.beta, grad_log_pdf(ld.initial, samples[i]),
                                 grad_log_pdf(ld.final, samples[i])), Len(samples)),
        density_state |-> density_state]

\* The gradient of the schedule's value with respect to each particle, with
\* the counter of the forward pass (hmc_wrapped.grad_log_density).
grad_log_density(ld, step, samples, density_state) ==
    LET fwd == GeometricAnnealingSchedule(ld, step, samples, density_state)
    IN [grad |-> MapSeq(LAMBDA i :
                     Interpolate(fwd.beta, grad_log_pdf(ld.initial, samples[i]),
                                 grad_log_pdf(ld.final, samples[i])), Len(samples)),
        density_state |-> fwd.density_state]

\* --------------------------------------------------------------------- flow

FlowParams == {"identity", "shift", "scale"}

\* flow_apply(flow_params, samples): the transformed samples and one
\* log-det-Jacobian per particle (ln 2 for the doubling map).
flow_apply(flow_params, samples) ==
    [samples |-> MapSeq(LAMBDA i :
                     CASE flow_params = "identity" -> samples[i]
                       [] flow_params = "shift" -> samples[i] + 1
                       [] flow_params = "scale" -> 2 * samples[i], Len(samples)),
     log_det_jacs |-> MapSeq(LAMBDA i :
                          IF flow_params = "scale" THEN 1 ELSE 0, Len(samples))]

\* ---------------------------------------------------------- transport step

get_delta_no_flow(samples, ld, step, density_state) ==
    LET current == GeometricAnnealingSchedule(ld, step, samples, density_state)
        previous == GeometricAnnealingSchedule(ld, step - 1, samples,
                                               current.density_state)
    IN [deltas |-> MapSeq(LAMBDA i : previous.values[i] - current.values[i], Len(samples)),
        density_state |-> previous.density_state,
        betas |-> <<current.beta, previous.beta>>]

\* get_delta adding the two log-densities instead of subtracting them.
get_delta_sum(samples, flow_params, ld, step, density_state) ==
    LET flow == flow_apply(flow_params, samples)
        current == GeometricAnnealingSchedule(ld, step, flow.samples, density_state)
        previous == GeometricAnnealingSchedule(ld, step - 1, samples,
                                               current.density_state)
    IN [deltas |-> MapSeq(LAMBDA i :
                       previous.values[i] + current.values[i] - flow.log_det_jacs[i], Len(samples)),
        density_state |-> previous.density_state,
        betas |-> <<current.beta, previous.beta>>]

\* get_delta with the previous density taken at step instead of step - 1.
get_delta_same_step(samples, flow_params, ld, step, density_state) ==
    LET flow == flow_apply(flow_params, samples)
        current == GeometricAnnealingSchedule(ld, step, flow.samples, density_state)
        previous == GeometricAnnealingSchedule(ld, step, samples,
                                               current.density_state)
    IN [deltas |-> MapSeq(LAMBDA i :
                       previous.values[i] - current.values[i] - flow.log_det_jacs[i], Len(samples)),
        density_state |-> previous.density_state,
        betas |-> <<current.beta, previous.beta>>]

get_delta(samples, flow_params, ld, step, density_state) ==
    LET flow == flow_apply(flow_params, samples)
        current == GeometricAnnealingSchedule(ld, step, flow.samples, density_state)
        previous == GeometricAnnealingSchedule(ld, step - 1, samples,
                                               current.density_state)
    IN [deltas |-> MapSeq(LAMBDA i :
                       previous.values[i] - current.values[i] - flow.log_det_jacs[i], Len(samples)),
        density_state |-> previous.density_state,
        betas |-> <<current.beta, previous.beta>>]

\* The outcome of a call that raised instead of returning.
Raised(error) == [raised |-> TRUE, error |-> error]

\* Whether jnp broadcasting accepts two rank-1 operands: equal lengths, or
\* one of them of length 1.
Broadcastable(a, b) == Len(a) = Len(b) \/ Len(a) = 1 \/ Len(b) = 1

\* The length of the broadcast of two rank-1 operands.
BroadcastLen(a, b) == IF Len(a) = 1 THEN Len(b) ELSE Len(a)

\* Entry i of a rank-1 operand broadcast to a longer one.
BroadcastAt(v, i) == IF Len(v) = 1 THEN v[1] ELSE v[i]

\* get_log_normalizer_increment_no_flow without the log_softmax of the
\* log-weights.
get_log_normalizer_increment_no_flow_unnormalized(deltas, log_weights) ==
    IF Len(deltas) # Len(log_weights) THEN Raised("AssertionError")
    ELSE LET total_terms == MapSeq(LAMBDA i :
                 LogSub(log_weights[i], LogFromInt(deltas[i])), Len(deltas))
         IN [raised |-> FALSE, increment |-> logsumexp(total_terms)]

\* get_log_normalizer_increment_no_flow: assert_equal_shape([deltas,
\* log_weights]), then logsumexp(log_softmax(log_weights) - deltas).
get_log_normalizer_increment_no_flow(deltas, log_weights) ==
    IF Len(deltas) # Len(log_weights) THEN Raised("AssertionError")
    ELSE LET normalized_log_weights == log_softmax(log_weights)
             total_terms == MapSeq(LAMBDA i :
                 LogSub(normalized_log_weights[i], LogFromInt(deltas[i])), Len(deltas))
         IN [raised |-> FALSE, increment |-> logsumexp(total_terms)]

\* reweight_no_flow returning log_weights_old - deltas as it is.
reweight_no_flow_unnormalized(log_weights_old, deltas) ==
    IF ~Broadcastable(log_weights_old, deltas) THEN Raised("TypeError")
    ELSE [raised |-> FALSE,
          log_weights |-> MapSeq(LAMBDA i :
              LogSub(BroadcastAt(log_weights_old, i),
                     LogFromInt(BroadcastAt(deltas, i))),
              BroadcastLen(log_weights_old, deltas))]

\* reweight_no_flow: log_softmax(log_weights_old - deltas). The subtraction
\* is jnp's, which broadcasts a length-1 operand and raises only for lengths
\* it cannot broadcast; the function asserts nothing about the shapes.
reweight_no_flow(log_weights_old, deltas) ==
    IF ~Broadcastable(log_weights_old, deltas) THEN Raised("TypeError")
    ELSE LET log_weights_new_unorm ==
                 MapSeq(LAMBDA i :
                     LogSub(BroadcastAt(log_weights_old, i),
                            LogFromInt(BroadcastAt(deltas, i))),
                     BroadcastLen(log_weights_old, deltas))
         IN [raised |-> FALSE, log_weights |-> log_softmax(log_weights_new_unorm)]

\* return log_weights_new, density_state of reweight, when reweight_no_flow
\* returned.
reweight_return(r, density_state) ==
    IF r.raised THEN Raised(r.error)
    ELSE [raised |-> FALSE, log_weights |-> r.log_weights,
          density_state |-> density_state]

reweight(log_weights_old, samples, flow_params, ld, step, density_state) ==
    LET d == get_delta(samples, flow_params, ld, step, density_state)
    IN reweight_return(reweight_no_flow(log_weights_old, d.deltas), d.density_state)

\* return increment, density_state of get_log_normalizer_increment, when
\* get_log_normalizer_increment_no_flow returned.
log_normalizer_increment_return(r, d) ==
    IF r.raised THEN Raised(r.error)
    ELSE [raised |-> FALSE, increment |-> r.increment,
          density_state |-> d.density_state, deltas |-> d.deltas]

get_log_normalizer_increment(samples, log_weights, flow_params, ld, step, density_state) ==
    LET d == get_delta(samples, flow_params, ld, step, density_state)
    IN log_normalizer_increment_return(
           get_log_normalizer_increment_no_flow(d.deltas, log_weights), d)

\* inv_flow_apply(flow_params, samples): the inverse of flow_apply, with the
\* inverse's log-det-Jacobian per particle (the negation of the forward one).
inv_flow_apply(flow_params, samples) ==
    [samples |-> MapSeq(LAMBDA i :
                     CASE flow_params = "identity" -> samples[i]
                       [] flow_params = "shift" -> samples[i] - 1
                       [] flow_params = "scale" -> samples[i] \div 2, Len(samples)),
     log_det_jacs |-> MapSeq(LAMBDA i :
                          IF flow_params = "scale" THEN -1 ELSE 0, Len(samples))]

\* variational_density inside get_delta_path_grad: its body assigns
\* density_state (log_density_base, density_state = log_density(step - 1,
\* initial_samples, density_state)), which makes the name local to the inner
\* function, so reading it for the call's argument finds it unbound and the
\* call raises before the density is evaluated.
variational_density(flow_params, input_samples, ld, step) ==
    LET inv == inv_flow_apply(flow_params, input_samples)
    IN IF Len(inv.samples) = Len(input_samples)
       THEN Raised("UnboundLocalError")
       ELSE Raised("AssertionError")

\* get_delta_path_grad: the step-t density at the transformed samples, then
\* variational_density at the transformed samples; what the inner call raises
\* propagates.
get_delta_path_grad(samples, flow_params, ld, step, density_state) ==
    LET flow == flow_apply(flow_params, samples)
        target == GeometricAnnealingSchedule(ld, step, flow.samples, density_state)
        log_density_q == variational_density(flow_params, flow.samples, ld, step)
    IN IF log_density_q.raised
       THEN [raised |-> TRUE, error |-> log_density_q.error,
             evaluated |-> target.evaluated]
       ELSE [raised |-> FALSE,
             deltas |-> MapSeq(LAMBDA i :
                            log_density_q.values[i] - target.values[i], Len(samples)),
             density_state |-> target.density_state]

\* A fraction n / d with a signed numerator, in lowest terms (d > 0).
SignedFrac(n, d) ==
    IF n = 0 THEN <<0, 1>> ELSE LET g == GCD(Abs(n), d) IN <<n \div g, d \div g>>

\* sum_i p[i] * deltas[i] for fractions p and integers deltas.
RECURSIVE WeightedSum(_, _)
WeightedSum(p, deltas) ==
    IF p = <<>> THEN <<0, 1>>
    ELSE LET rest == WeightedSum(Tail(p), Tail(deltas))
         IN SignedFrac(p[1][1] * deltas[1] * rest[2] + rest[1] * p[1][2],
                       p[1][2] * rest[2])

\* jax.nn.softmax: exp(log_weights) / sum(exp(log_weights)), plain fractions.
softmax(log_weights) ==
    MapSeq(LAMBDA i : LogSub(log_weights[i], FracSum(log_weights)), Len(log_weights))

\* The end of transport_free_energy_estimator, given what get_delta or
\* get_delta_path_grad gave: assert_equal_shape([deltas, log_weights]), then
\* jnp.sum(jax.nn.softmax(log_weights) * deltas).
transport_free_energy_sum(d, log_weights) ==
    IF d.raised THEN Raised(d.error)
    ELSE IF Len(d.deltas) # Len(log_weights) THEN Raised("AssertionError")
    ELSE [raised |-> FALSE,
          estimate |-> WeightedSum(softmax(log_weights), d.deltas),
          density_state |-> d.density_state]

\* get_delta as a call that returned.
get_delta_returned(d) ==
    [raised |-> FALSE, deltas |-> d.deltas, density_state |-> d.density_state]

transport_free_energy_estimator(samples, log_weights, flow_params, ld, step, use_path_gradient, density_state) ==
    IF ~use_path_gradient
    THEN transport_free_energy_sum(
             get_delta_returned(get_delta(samples, flow_params, ld, step, density_state)),
             log_weights)
    ELSE transport_free_energy_sum(
             get_delta_path_grad(samples, flow_params, ld, step, density_state),
             log_weights)

\* ------------------------------------------------------------ Markov kernel

One == <<1, 1>>

\* InterpolatedStepSize.__call__ for control points step_times = [0, 1]:
\* jnp.interp(time_step / (total_num_time_steps - 1), step_times, step_sizes).
InterpolatedStepSize(step_sizes, time_step) ==
    Interpolate(<<time_step, num_temps - 1>>, step_sizes[1], step_sizes[2])

\* random_normal_like_tree for a tree of one leaf: the key is split into one
\* key per leaf and each leaf is drawn with its own key.
random_normal_like_tree(key, tree) ==
    LET split_keys == Split(key, 1) IN random_normal(split_keys[1], Len(tree))

\* The accept/reject of rwm_step, given the schedule's values at the proposed
\* and at the previous samples.
rwm_step_accept(previous_samples, proposed_samples, exponential_rvs, proposed, previous) ==
    LET num_batch == Len(previous_samples)
        delta_log_prob == MapSeq(LAMBDA i :
            proposed.values[i] - previous.values[i], num_batch)
        is_accepted == MapSeq(LAMBDA i :
            delta_log_prob[i] > -1 * exponential_rvs[i], num_batch)
    IN [samples |-> MapSeq(LAMBDA i :
            IF is_accepted[i] THEN proposed_samples[i] ELSE previous_samples[i], num_batch),
        density_state |-> previous.density_state,
        accepted |-> Cardinality({i \in 1..num_batch : is_accepted[i]}),
        previous_samples |-> previous_samples,
        proposed_samples |-> proposed_samples,
        delta_log_prob |-> delta_log_prob,
        exponential_rvs |-> exponential_rvs,
        is_accepted |-> is_accepted]

\* One Metropolis step of random_walk_metropolis (rwm_step): the proposal,
\* the density at the proposed samples, then at the previous ones.
rwm_step(state_in, curr_key, proposal_scale, ld, temp_step) ==
    LET previous_samples == state_in.samples
        num_batch == Len(previous_samples)
        normal_key == Split(curr_key, 2)[1]
        acceptance_key == Split(curr_key, 2)[2]
        standard_normal_tree == random_normal_like_tree(normal_key, previous_samples)
        proposed_samples == MapSeq(LAMBDA i :
            previous_samples[i] + standard_normal_tree[i] * proposal_scale, num_batch)
        proposed == GeometricAnnealingSchedule(ld, temp_step, proposed_samples,
                                               state_in.density_state)
    IN rwm_step_accept(previous_samples, proposed_samples,
                       random_exponential(acceptance_key, num_batch), proposed,
                       GeometricAnnealingSchedule(ld, temp_step, previous_samples,
                                                  proposed.density_state))

\* jax.lax.scan of rwm_step over keys[k..]: the trace of the steps taken.
RECURSIVE rwm_scan(_, _, _, _, _, _)
RECURSIVE rwm_scan_carry(_, _, _, _, _, _)

\* The carry of the scan: the state after step s goes into the next step.
rwm_scan_carry(s, keys, k, proposal_scale, ld, temp_step) ==
    <<s>> \o rwm_scan([samples |-> s.samples, density_state |-> s.density_state],
                      keys, k + 1, proposal_scale, ld, temp_step)

rwm_scan(state_in, keys, k, proposal_scale, ld, temp_step) ==
    IF k > Len(keys) THEN <<>>
    ELSE rwm_scan_carry(rwm_step(state_in, keys[k], proposal_scale, ld, temp_step),
                        keys, k, proposal_scale, ld, temp_step)

\* What random_walk_metropolis returns after the scan: the last state and the
\* mean of the steps' acceptance rates.
rwm_return(steps, samples_in, temp_step, num_mh_steps, key, density_state) ==
    [samples |-> steps[Len(steps)].samples,
     acceptance |-> Reduce(SeqSum(MapSeq(LAMBDA k : steps[k].accepted, Len(steps))),
                           Len(samples_in) * num_mh_steps),
     density_state |-> steps[Len(steps)].density_state,
     steps |-> steps,
     args |-> [samples |-> samples_in, key |-> key, temp_step |-> temp_step,
               density_state |-> density_state]]

random_walk_metropolis(samples_in, proposal_scale, ld, temp_step, num_mh_steps, key, density_state) ==
    rwm_return(rwm_scan([samples |-> samples_in, density_state |-> density_state],
                        Split(key, num_mh_steps), 1, proposal_scale, ld, temp_step),
               samples_in, temp_step, num_mh_steps, key, density_state)

\* momentum_in + step_coefficient * epsilon * gradient for the gradient g,
\* step_coefficient a fraction (1/2 or 1).
momentum_step_add(samples_in, momentum_in, step_coefficient, epsilon, g) ==
    [momentum |-> MapSeq(LAMBDA i :
         momentum_in[i]
           + (g.grad[i] * step_coefficient[1] * epsilon) \div step_coefficient[2], Len(samples_in)),
     density_state |-> g.density_state,
     grad_at |-> samples_in]

momentum_step(samples_in, momentum_in, step_coefficient, epsilon, ld, temp_step, density_state) ==
    momentum_step_add(samples_in, momentum_in, step_coefficient, epsilon,
                      grad_log_density(ld, temp_step, samples_in, density_state))

\* What leapfrog_step returns: the new position and the momentum step made
\* there.
leapfrog_return(samples_out, m) ==
    [samples |-> samples_out, momentum |-> m.momentum,
     density_state |-> m.density_state, grad_at |-> m.grad_at]

\* leapfrog_step making the momentum step where it stands, without the
\* position step.
leapfrog_step_no_position(samples_in, momentum_in, step_coefficient, epsilon, ld, temp_step, density_state) ==
    leapfrog_return(samples_in,
                    momentum_step(samples_in, momentum_in, step_coefficient,
                                  epsilon, ld, temp_step, density_state))

\* A full position step, then a momentum step at the new position.
leapfrog_step(samples_in, momentum_in, step_coefficient, epsilon, ld, temp_step, density_state) ==
    LET samples_out == MapSeq(LAMBDA i :
            samples_in[i] + momentum_in[i] * epsilon, Len(samples_in))
    IN leapfrog_return(samples_out,
                       momentum_step(samples_out, momentum_in, step_coefficient,
                                     epsilon, ld, temp_step, density_state))

\* The scan of hmc_step: n leapfrog steps with step_coefficient 1.
RECURSIVE leapfrog_scan(_, _, _, _, _)
RECURSIVE leapfrog_scan_carry(_, _, _, _, _, _)

\* The carry of the scan: the state after step s goes into the next step.
leapfrog_scan_carry(s, ops, n, epsilon, ld, temp_step) ==
    leapfrog_scan([samples |-> s.samples, momentum |-> s.momentum,
                   density_state |-> s.density_state,
                   ops |-> ops \o <<"position", "momentum">>],
                  n - 1, epsilon, ld, temp_step)

leapfrog_scan(state, n, epsilon, ld, temp_step) ==
    IF n <= 0 THEN state
    ELSE leapfrog_scan_carry(
             leapfrog_step(state.samples, state.momentum, <<1, 1>>, epsilon,
                           ld, temp_step, state.density_state),
             state.ops, n, epsilon, ld, temp_step)

\* Position log-density plus momentum log-density -0.5 * mom^2.
get_combined_log_densities(pos, mom, ld, temp_step, density_state) ==
    LET p == GeometricAnnealingSchedule(ld, temp_step, pos, density_state)
    IN [values |-> MapSeq(LAMBDA i : p.values[i] - ((mom[i] * mom[i]) \div 2), Len(pos)),
        density_state |-> p.density_state]

\* hmc_step_accept accepting a particle whose difference equals minus its
\* exponential draw as well.
hmc_step_accept_or_equal(samples_in, initial_momentum, acceptance_key, ops, final, current, proposed) ==
    LET num_batch == Len(current.values)
        exponential_rvs == random_exponential(acceptance_key, num_batch)
        delta_log_prob == MapSeq(LAMBDA i :
            proposed.values[i] - current.values[i], num_batch)
        is_accepted == MapSeq(LAMBDA i :
            delta_log_prob[i] >= -1 * exponential_rvs[i], num_batch)
    IN [samples |-> MapSeq(LAMBDA i :
            IF is_accepted[i] THEN final.samples[i] ELSE samples_in[i], num_batch),
        density_state |-> proposed.density_state,
        accepted |-> Cardinality({i \in 1..num_batch : is_accepted[i]}),
        previous_samples |-> samples_in,
        proposed_samples |-> final.samples,
        initial_momentum |-> initial_momentum,
        final_momentum |-> final.momentum,
        delta_log_prob |-> delta_log_prob,
        exponential_rvs |-> exponential_rvs,
        is_accepted |-> is_accepted,
        ops |-> ops \o <<"position", "half_momentum">>]

\* The accept/reject of hmc_step, given the combined log-densities at the
\* start (current) and at the end of the trajectory (proposed).
hmc_step_accept(samples_in, initial_momentum, acceptance_key, ops, final, current, proposed) ==
    LET num_batch == Len(current.values)
        exponential_rvs == random_exponential(acceptance_key, num_batch)
        delta_log_prob == MapSeq(LAMBDA i :
            proposed.values[i] - current.values[i], num_batch)
        is_accepted == MapSeq(LAMBDA i :
            delta_log_prob[i] > -1 * exponential_rvs[i], num_batch)
    IN [samples |-> MapSeq(LAMBDA i :
            IF is_accepted[i] THEN final.samples[i] ELSE samples_in[i], num_batch),
        density_state |-> proposed.density_state,
        accepted |-> Cardinality({i \in 1..num_batch : is_accepted[i]}),
        previous_samples |-> samples_in,
        proposed_samples |-> final.samples,
        initial_momentum |-> initial_momentum,
        final_momentum |-> final.momentum,
        delta_log_prob |-> delta_log_prob,
        exponential_rvs |-> exponential_rvs,
        is_accepted |-> is_accepted,
        ops |-> ops \o <<"position", "half_momentum">>]

\* The two evaluations of get_combined_log_densities after the trajectory:
\* at the start first, at the end second.
hmc_step_densities(samples_in, initial_momentum, acceptance_key, ld, temp_step, ops, final) ==
    LET current == get_combined_log_densities(samples_in, initial_momentum, ld,
                                              temp_step, final.density_state)
    IN hmc_step_accept(samples_in, initial_momentum, acceptance_key, ops, final,
                       current,
                       get_combined_log_densities(final.samples, final.momentum, ld,
                                                  temp_step, current.density_state))

\* The last leapfrog step of the trajectory: a whole position step and a half
\* momentum step.
hmc_step_final(samples_in, initial_momentum, acceptance_key, epsilon, ld, temp_step, new_state) ==
    hmc_step_densities(samples_in, initial_momentum, acceptance_key, ld, temp_step,
                       new_state.ops,
                       leapfrog_step(new_state.samples, new_state.momentum, <<1, 2>>,
                                     epsilon, ld, temp_step, new_state.density_state))

\* A single step of Hamiltonian Monte Carlo: draw the momentum, half a
\* momentum step, num_leapfrog_iters - 1 whole leapfrog steps, the last step,
\* then accept or reject.
hmc_step(samples_in, key, epsilon, ld, temp_step, num_leapfrog_iters, density_state) ==
    LET momentum_key == Split(key, 2)[1]
        acceptance_key == Split(key, 2)[2]
        initial_momentum == random_normal_like_tree(momentum_key, samples_in)
        half == momentum_step(samples_in, initial_momentum, <<1, 2>>, epsilon,
                              ld, temp_step, density_state)
    IN hmc_step_final(samples_in, initial_momentum, acceptance_key, epsilon, ld,
                      temp_step,
                      leapfrog_scan([samples |-> samples_in,
                                     momentum |-> half.momentum,
                                     density_state |-> half.density_state,
                                     ops |-> <<"draw", "half_momentum">>],
                                    num_leapfrog_iters - 1, epsilon, ld, temp_step))

\* jax.lax.scan of hmc_step over step_keys[k..].
RECURSIVE hmc_scan(_, _, _, _, _, _, _)
RECURSIVE hmc_scan_carry(_, _, _, _, _, _, _)

\* The carry of the scan: the state after step s goes into the next step.
hmc_scan_carry(s, step_keys, k, epsilon, ld, temp_step, num_leapfrog_iters) ==
    <<s>> \o hmc_scan([samples |-> s.samples, density_state |-> s.density_state],
                      step_keys, k + 1, epsilon, ld, temp_step, num_leapfrog_iters)

hmc_scan(state_in, step_keys, k, epsilon, ld, temp_step, num_leapfrog_iters) ==
    IF k > Len(step_keys) THEN <<>>
    ELSE hmc_scan_carry(hmc_step(state_in.samples, step_keys[k], epsilon, ld,
                                 temp_step, num_leapfrog_iters,
                                 state_in.density_state),
                        step_keys, k, epsilon, ld, temp_step, num_leapfrog_iters)

\* What hmc returns after the scan: the last state and the mean of the steps'
\* acceptance rates.
hmc_return(steps, samples_in, key, temp_step, num_hmc_iters, density_state) ==
    [samples |-> steps[Len(steps)].samples,
     acceptance |-> Reduce(SeqSum(MapSeq(LAMBDA k : steps[k].accepted, Len(steps))),
                           Len(samples_in) * num_hmc_iters),
     density_state |-> steps[Len(steps)].density_state,
     steps |-> steps,
     args |-> [samples |-> samples_in, key |-> key, temp_step |-> temp_step,
               density_state |-> density_state]]

\* hmc as hmc_wrapped calls it, with the density fixed at temp_step.
hmc_wrapped(samples_in, key, epsilon, ld, temp_step, num_leapfrog_iters, num_hmc_iters, density_state) ==
    hmc_return(hmc_scan([samples |-> samples_in, density_state |-> density_state],
                        Split(key, num_hmc_iters), 1, epsilon, ld, temp_step,
                        num_leapfrog_iters),
               samples_in, key, temp_step, num_hmc_iters, density_state)

\* One transition of the third kernel (kernel.one_step of the NoUTurnSampler)
\* as far as the composition depends on it: a Metropolis-corrected move that
\* is a function of the seed, with the density read through
\* log_density = lambda x: log_density_by_step(temp_step, x, 0)[0], whose
\* counter starts at 0 and is dropped; evaluations is what that counter held.
nuts_one_step(samples_in, seed, epsilon, ld, temp_step) ==
    LET num_batch == Len(samples_in)
        momentum == random_normal(Split(seed, 2)[1], num_batch)
        exponential_rvs == random_exponential(Split(seed, 2)[2], num_batch)
        proposed_samples == MapSeq(LAMBDA i :
            samples_in[i] + momentum[i] * epsilon, num_batch)
        proposed == GeometricAnnealingSchedule(ld, temp_step, proposed_samples, 0)
        previous == GeometricAnnealingSchedule(ld, temp_step, samples_in, 0)
        delta == MapSeq(LAMBDA i : proposed.values[i] - previous.values[i], num_batch)
    IN [samples |-> MapSeq(LAMBDA i :
            IF delta[i] > -1 * exponential_rvs[i]
            THEN proposed_samples[i] ELSE samples_in[i], num_batch),
        log_accept_ratio |-> MapSeq(LAMBDA i : Min(0, delta[i]), num_batch),
        evaluations |-> proposed.density_state + previous.density_state,
        seed |-> seed,
        samples_in |-> samples_in]

\* The loop of nuts_wrapped: every iteration is seeded with the same key.
RECURSIVE nuts_loop(_, _, _, _, _, _)
RECURSIVE nuts_loop_carry(_, _, _, _, _, _)

\* samples_in, kernel_results_in = samples_out, kernel_results_out.
nuts_loop_carry(s, key, epsilon, ld, temp_step, n) ==
    <<s>> \o nuts_loop(s.samples, key, epsilon, ld, temp_step, n - 1)

nuts_loop(samples_in, key, epsilon, ld, temp_step, n) ==
    IF n <= 0 THEN <<>>
    ELSE nuts_loop_carry(nuts_one_step(samples_in, key, epsilon, ld, temp_step),
                         key, epsilon, ld, temp_step, n)

\* What nuts_wrapped returns after the loop: (samples_out, acceptance) and no
\* counter; acceptance is exp(mean(log_accept_ratio)) of the last iteration,
\* the mean rounded down to a whole number of ln 2 units.
nuts_return(iters, samples_in, key, temp_step) ==
    [samples |-> iters[Len(iters)].samples,
     acceptance |-> LogFromInt(SeqSum(iters[Len(iters)].log_accept_ratio)
                                   \div Len(samples_in)),
     iters |-> iters,
     evaluations |-> SeqSum(MapSeq(LAMBDA k : iters[k].evaluations, Len(iters))),
     args |-> [samples |-> samples_in, key |-> key, temp_step |-> temp_step]]

nuts_wrapped(samples_in, key, epsilon, ld, temp_step, num_nuts_iters) ==
    nuts_return(nuts_loop(samples_in, key, epsilon, ld, temp_step, num_nuts_iters),
                samples_in, key, temp_step)

\* The move record the kernel's trace keeps for one enabled move type: what
\* the move received and what it returned.
MoveRecord(move, r, density_state_in, density_state_out) ==
    [move |-> move, key |-> r.args.key, temp_step |-> r.args.temp_step,
     samples_in |-> r.args.samples, samples_out |-> r.samples,
     acceptance |-> r.acceptance,
     density_state_in |-> density_state_in,
     density_state_out |-> density_state_out]

\* The batch hmc_wrapped is called with: the variable samples, which the RWM
\* branch has rebound to its output.
hmc_samples_in_original(samples, samples_after_rwm) == samples
hmc_samples_in(samples, samples_after_rwm) == samples_after_rwm

\* acceptance_tuple = (hmc_acc, rwm_acc, nuts_acc).
acceptance_layout_in_order(hmc_acc, rwm_acc, nuts_acc) == <<rwm_acc, hmc_acc, nuts_acc>>
acceptance_layout(hmc_acc, rwm_acc, nuts_acc) == <<hmc_acc, rwm_acc, nuts_acc>>

\* The counter after the NUTS branch: nuts_wrapped returns none, so the
\* kernel keeps the one it had.
counter_after_nuts_threaded(density_state, nuts) == density_state + nuts.evaluations
counter_after_nuts(density_state, nuts) == density_state

\* The kernel's local variables on entry, and the trace of the moves made.
kernel_entry(step, key, samples, density_state) ==
    [samples |-> samples, key |-> key, density_state |-> density_state,
     rwm_acc |-> One, hmc_acc |-> One, nuts_acc |-> One,
     moves |-> <<>>, consumers |-> <<>>, nuts_evaluations |-> 0,
     args |-> [step |-> step, key |-> key, samples |-> samples,
               density_state |-> density_state]]

\* The RWM branch taken: samples, rwm_acc and density_state are rebound to
\* what random_walk_metropolis returned, key to the second child of the split.
kernel_rwm_taken(st, rwm) ==
    [st EXCEPT !.samples = rwm.samples,
               !.key = Split(st.key, 2)[2],
               !.density_state = rwm.density_state,
               !.rwm_acc = rwm.acceptance,
               !.moves = @ \o <<MoveRecord("rwm", rwm, st.density_state,
                                           rwm.density_state)>>,
               !.consumers = @ \o <<[consumer |-> "rwm", key |-> rwm.args.key]>>]

\* if rwm_steps_per_iter != 0: split the key and run RWM with the subkey;
\* else rwm_acc = 1.0.
kernel_rwm(config, ld, step, st) ==
    IF config.rwm_steps_per_iter # 0
    THEN kernel_rwm_taken(st,
             random_walk_metropolis(st.samples,
                 InterpolatedStepSize(config.rwm_step_sizes, step), ld, step,
                 config.rwm_steps_per_iter, Split(st.key, 2)[1], st.density_state))
    ELSE st

\* The HMC branch taken: samples, hmc_acc and density_state are rebound.
kernel_hmc_taken(st, hmc) ==
    [st EXCEPT !.samples = hmc.samples,
               !.density_state = hmc.density_state,
               !.hmc_acc = hmc.acceptance,
               !.moves = @ \o <<MoveRecord("hmc", hmc, st.density_state,
                                           hmc.density_state)>>,
               !.consumers = @ \o <<[consumer |-> "hmc", key |-> hmc.args.key]>>]

\* if hmc_steps_per_iter != 0: run HMC with key; else hmc_acc = 1.0.
kernel_hmc(config, ld, step, st) ==
    IF config.hmc_steps_per_iter # 0
    THEN kernel_hmc_taken(st,
             hmc_wrapped(hmc_samples_in(st.args.samples, st.samples), st.key,
                 InterpolatedStepSize(config.hmc_step_sizes, step), ld, step,
                 config.hmc_num_leapfrog_steps, config.hmc_steps_per_iter,
                 st.density_state))
    ELSE st

\* The NUTS branch taken: samples and nuts_acc are rebound.
kernel_nuts_taken(st, nuts) ==
    [st EXCEPT !.samples = nuts.samples,
               !.density_state = counter_after_nuts(st.density_state, nuts),
               !.nuts_acc = nuts.acceptance,
               !.moves = @ \o <<MoveRecord("nuts", nuts, st.density_state,
                                           counter_after_nuts(st.density_state, nuts))>>,
               !.consumers = @ \o MapSeq(LAMBDA k :
                                 [consumer |-> "nuts", key |-> nuts.iters[k].seed],
                                 Len(nuts.iters)),
               !.nuts_evaluations = nuts.evaluations]

\* if nuts_steps_per_iter != 0: run NUTS with the same key; else
\* nuts_acc = 1.0.
kernel_nuts(config, ld, step, st) ==
    IF config.nuts_steps_per_iter # 0
    THEN kernel_nuts_taken(st,
             nuts_wrapped(st.samples, st.key,
                 InterpolatedStepSize(config.nuts_step_sizes, step), ld, step,
                 config.nuts_steps_per_iter))
    ELSE st

\* return samples, acceptance_tuple, density_state (with the trace).
kernel_return(st) ==
    [samples |-> st.samples,
     acceptance_tuple |-> acceptance_layout(st.hmc_acc, st.rwm_acc, st.nuts_acc),
     density_state |-> st.density_state,
     moves |-> st.moves,
     consumers |-> st.consumers,
     nuts_evaluations |-> st.nuts_evaluations,
     args |-> st.args]

\* MarkovTransitionKernel.__call__: RWM, then HMC, then NUTS, each when its
\* configured iteration count is not zero.
MarkovTransitionKernel(config, ld, step, key, samples, density_state) ==
    kernel_return(
        kernel_nuts(config, ld, step,
            kernel_hmc(config, ld, step,
                kernel_rwm(config, ld, step,
                    kernel_entry(step, key, samples, density_state)))))

\* ------------------------------------------------------- step orchestration

\* The batch optionally_resample is called with: transformed_samples.
resampler_samples_in_untransformed(samples, transformed_samples) == samples
resampler_samples_in(samples, transformed_samples) == transformed_samples

\* The else branch of use_markov: the resampled batch and (1.0, 1.0, 1.0).
markov_disabled_zero(resampled_samples) ==
    [samples |-> resampled_samples,
     acceptance_tuple |-> << <<0, 1>>, <<0, 1>>, <<0, 1>> >>]
markov_disabled(resampled_samples) ==
    [samples |-> resampled_samples, acceptance_tuple |-> <<One, One, One>>]

\* One record of the trace of update_samples_log_weights: a sub-step, what it
\* received and what it returned.
CallRecord(op, samples, log_weights, out_samples, out_log_weights) ==
    [op |-> op, samples |-> samples, log_weights |-> log_weights,
     out_samples |-> out_samples, out_log_weights |-> out_log_weights]

\* The local variables of update_samples_log_weights after the flow and
\* reweight: transformed_samples, log_weights_new, density_state.
update_reweighted(samples, log_weights, key, transformed_samples, rw) ==
    [samples |-> transformed_samples, log_weights |-> rw.log_weights,
     key |-> key, density_state |-> rw.density_state,
     reweight_density_state |-> rw.density_state,
     acceptance_tuple |-> <<One, One, One>>,
     resampled |-> FALSE, markov |-> [moves |-> <<>>],
     calls |-> <<CallRecord("flow_apply", samples, <<>>, transformed_samples, <<>>),
                 CallRecord("reweight", samples, log_weights, <<>>, rw.log_weights)>>]

\* The resampling branch taken: resampled_samples, log_weights_resampled and
\* key are bound to what optionally_resample returned and to the split's
\* second child.
update_resample_taken(st, rs) ==
    [st EXCEPT !.samples = rs.out[1],
               !.log_weights = rs.out[2],
               !.key = Split(st.key, 2)[2],
               !.resampled = rs.resampled,
               !.calls = @ \o <<CallRecord("optionally_resample", rs.args.samples,
                                           rs.args.log_weights, rs.out[1], rs.out[2])>>]

\* if use_resampling: split the key and resample with the subkey; else the
\* transformed samples and the new log-weights pass through.
update_resample(st, samples, use_resampling, resample_threshold) ==
    IF use_resampling
    THEN update_resample_taken(st,
             optionally_resample(Split(st.key, 2)[1], st.log_weights,
                                 resampler_samples_in(samples, st.samples),
                                 resample_threshold))
    ELSE st

\* The Markov branch taken: markov_samples, acceptance_tuple and density_state
\* are what markov_kernel_apply returned.
update_markov_taken(st, mk) ==
    [st EXCEPT !.samples = mk.samples,
               !.acceptance_tuple = mk.acceptance_tuple,
               !.density_state = mk.density_state,
               !.markov = mk,
               !.calls = @ \o <<CallRecord("markov_kernel_apply", mk.args.samples,
                                           <<>>, mk.samples, <<>>)>>]

\* if use_markov: apply the kernel to the resampled samples; else they pass
\* through with the acceptance (1.0, 1.0, 1.0).
update_markov(st, config, ld, step, use_markov) ==
    IF use_markov
    THEN update_markov_taken(st,
             MarkovTransitionKernel(config, ld, step, st.key, st.samples,
                                    st.density_state))
    ELSE [st EXCEPT !.samples = markov_disabled(st.samples).samples,
                    !.acceptance_tuple = markov_disabled(st.samples).acceptance_tuple]

update_samples_log_weights(flow_params, config, samples, log_weights, key, ld, step, use_resampling, use_markov, resample_threshold, density_state) ==
    update_markov(
        update_resample(
            update_reweighted(samples, log_weights, key,
                flow_apply(flow_params, samples).samples,
                reweight(log_weights, samples, flow_params, ld, step, density_state)),
            samples, use_resampling, resample_threshold),
        config, ld, step, use_markov)

\* ------------------------------------------------------------ state machine

VARIABLES
    samples,        \* the particle batch the outer loop holds
    log_weights,    \* its log-weights
    key,            \* the outer loop's random key
    density_state,  \* the density-evaluation counter
    step,           \* the annealing step last completed
    env,            \* what prepare_outer_loop built: densities, kernel config, flow
    ncalls,         \* calls of single primitives made so far
    last            \* the last call: its name, its arguments and its result

vars == <<samples, log_weights, key, density_state, step, env, ncalls, last>>

KernelConfig(rwm, hmc, leapfrog, nuts) ==
    [rwm_steps_per_iter |-> rwm, hmc_steps_per_iter |-> hmc,
     hmc_num_leapfrog_steps |-> leapfrog, nuts_steps_per_iter |-> nuts,
     rwm_step_sizes |-> <<1, 1>>, hmc_step_sizes |-> <<4, 4>>,
     nuts_step_sizes |-> <<1, 1>>]

\* One kernel configuration for every combination of enabled move types.
KernelConfigs ==
    {KernelConfig(0, 0, 1, 0), KernelConfig(1, 0, 1, 0), KernelConfig(0, 1, 1, 0),
     KernelConfig(0, 0, 1, 2), KernelConfig(2, 1, 2, 0), KernelConfig(1, 0, 1, 2),
     KernelConfig(0, 1, 2, 1), KernelConfig(1, 1, 1, 1)}

\* The configurations the whole pipeline is run with.
PipelineConfigs ==
    {KernelConfig(0, 0, 1, 0), KernelConfig(2, 1, 2, 0), KernelConfig(1, 1, 1, 1)}

Densities ==
    {run_experiment_densities("Laplace", 0, "Laplace", 1),
     run_experiment_densities("Flat", 0, "Flat", 0)}

AllSamples == [1..NumBatch -> {0, 1}]

\* Batches up to the order of the particles.
InitSamples == {s \in AllSamples : \A i \in 1..(NumBatch - 1) : s[i] <= s[i + 1]}

UniformLogWeights == MapSeq(LAMBDA i : <<1, NumBatch>>, NumBatch)

\* Unnormalized log-weights: the first particle three times as heavy.
SkewedLogWeights == MapSeq(LAMBDA i : IF i = 1 THEN <<3, 1>> ELSE <<1, 1>>, NumBatch)

UpdateThresholds == {<<1, 2>>, <<3, 2>>}

Steps == 0..(num_temps - 1)

InitWith(configs, densities, flows, batches, weights, steps) ==
    /\ samples \in batches
    /\ log_weights \in weights
    /\ \E seed \in 0..(NumSeeds - 1) : key = PRNGKey(seed)
    /\ density_state = 0
    /\ step \in steps
    /\ env \in [ld : densities, config : configs, flow_params : flows]
    /\ ncalls = 0
    /\ last = [op |-> "init"]

\* Batches with every particle at 0 but possibly the last.
TwoPointSamples == {s \in AllSamples : \A i \in 1..(NumBatch - 1) : s[i] = 0}

\* The start of a run in which every primitive may be called.
Init == InitWith(KernelConfigs, {run_experiment_densities("Laplace", 0, "Laplace", 1)},
                 {"scale"}, TwoPointSamples, {UniformLogWeights}, {0})

\* The start of a run of the annealing loop alone.
InitUpdate == InitWith(PipelineConfigs, Densities, FlowParams, InitSamples,
                       {UniformLogWeights, SkewedLogWeights}, {0})

Call(op, args, out) == [op |-> op, args |-> args, out |-> out]

\* The outer loop's step: key, subkey = split(key), then one call of
\* update_samples_log_weights at the next annealing step.
UpdateSamplesLogWeights ==
    /\ step < env.ld.num_temps - 1
    /\ \E use_resampling \in BOOLEAN, use_markov \in BOOLEAN,
          resample_threshold \in UpdateThresholds :
         LET subkey == Split(key, 2)[2]
             r == update_samples_log_weights(env.flow_params, env.config, samples,
                      log_weights, subkey, env.ld, step + 1, use_resampling,
                      use_markov, resample_threshold, density_state)
         IN /\ last' = Call("update_samples_log_weights",
                            [samples |-> samples, log_weights |-> log_weights,
                             key |-> subkey, step |-> step + 1,
                             use_resampling |-> use_resampling,
                             use_markov |-> use_markov,
                             resample_threshold |-> resample_threshold,
                             density_state |-> density_state], r)
            /\ samples' = last'.out.samples
            /\ log_weights' = last'.out.log_weights
            /\ density_state' = last'.out.density_state
    /\ key' = Split(key, 2)[1]
    /\ step' = step + 1
    /\ UNCHANGED <<env, ncalls>>

\* A call of the composite Markov kernel at the current step.
ApplyMarkovKernel ==
    /\ ncalls < MaxCalls
    /\ LET subkey == Split(key, 2)[2]
           r == MarkovTransitionKernel(env.config, env.ld, step, subkey, samples,
                                       density_state)
       IN /\ last' = Call("markov_kernel_apply",
                          [samples |-> samples, key |-> subkey, step |-> step,
                           density_state |-> density_state,
                           config |-> env.config], r)
          /\ samples' = last'.out.samples
          /\ density_state' = last'.out.density_state
    /\ key' = Split(key, 2)[1]
    /\ ncalls' = ncalls + 1
    /\ UNCHANGED <<log_weights, step, env>>

\* A call of random_walk_metropolis on its own.
ApplyRandomWalkMetropolis ==
    /\ ncalls < MaxCalls
    /\ \E num_mh_steps \in 1..2 :
         LET subkey == Split(key, 2)[2]
             r == random_walk_metropolis(samples,
                      InterpolatedStepSize(env.config.rwm_step_sizes, step),
                      env.ld, step, num_mh_steps, subkey, density_state)
         IN /\ last' = Call("random_walk_metropolis",
                            [samples |-> samples, key |-> subkey, step |-> step,
                             num_mh_steps |-> num_mh_steps,
                             density_state |-> density_state], r)
            /\ samples' = last'.out.samples
            /\ density_state' = last'.out.density_state
    /\ key' = Split(key, 2)[1]
    /\ ncalls' = ncalls + 1
    /\ UNCHANGED <<log_weights, step, env>>

\* A call of hmc (through hmc_wrapped) on its own.
ApplyHmc ==
    /\ ncalls < MaxCalls
    /\ \E num_hmc_iters \in 1..2 :
         LET num_leapfrog_iters == env.config.hmc_num_leapfrog_steps
             subkey == Split(key, 2)[2]
             r == hmc_wrapped(samples, subkey,
                      InterpolatedStepSize(env.config.hmc_step_sizes, step),
                      env.ld, step, num_leapfrog_iters, num_hmc_iters,
                      density_state)
         IN /\ last' = Call("hmc",
                            [samples |-> samples, key |-> subkey, step |-> step,
                             num_leapfrog_iters |-> num_leapfrog_iters,
                             num_hmc_iters |-> num_hmc_iters,
                             density_state |-> density_state], r)
            /\ samples' = last'.out.samples
            /\ density_state' = last'.out.density_state
    /\ key' = Split(key, 2)[1]
    /\ ncalls' = ncalls + 1
    /\ UNCHANGED <<log_weights, step, env>>

\* An evaluation of the annealing schedule at the current step on the current
\* batch.
EvaluateSchedule ==
    /\ ncalls < MaxCalls
    /\ \E s \in {step} :
         LET r == GeometricAnnealingSchedule(env.ld, s, samples, density_state)
         IN /\ last' = Call("schedule",
                            [samples |-> samples, step |-> s,
                             density_state |-> density_state], r)
            /\ density_state' = last'.out.density_state
    /\ ncalls' = ncalls + 1
    /\ UNCHANGED <<samples, log_weights, key, step, env>>

\* get_delta or get_delta_no_flow at the next step on the current batch.
GetDelta ==
    /\ ncalls < MaxCalls
    /\ step < env.ld.num_temps - 1
    /\ \E s \in {step + 1}, with_flow \in BOOLEAN :
         LET r == IF with_flow
                  THEN get_delta(samples, env.flow_params, env.ld, s, density_state)
                  ELSE get_delta_no_flow(samples, env.ld, s, density_state)
         IN /\ last' = Call(IF with_flow THEN "get_delta" ELSE "get_delta_no_flow",
                            [samples |-> samples, step |-> s,
                             flow_params |-> env.flow_params,
                             density_state |-> density_state], r)
            /\ density_state' = last'.out.density_state
    /\ ncalls' = ncalls + 1
    /\ UNCHANGED <<samples, log_weights, key, step, env>>

\* reweight at the next step: the weights change, the batch does not.
Reweight ==
    /\ ncalls < MaxCalls
    /\ step < env.ld.num_temps - 1
    /\ LET r == reweight(log_weights, samples, env.flow_params, env.ld, step + 1,
                         density_state)
       IN /\ last' = Call("reweight",
                          [samples |-> samples, log_weights |-> log_weights,
                           step |-> step + 1, density_state |-> density_state], r)
          /\ log_weights' = last'.out.log_weights
          /\ density_state' = last'.out.density_state
    /\ ncalls' = ncalls + 1
    /\ UNCHANGED <<samples, key, step, env>>

Next ==
    \/ UpdateSamplesLogWeights
    \/ ApplyMarkovKernel
    \/ ApplyRandomWalkMetropolis
    \/ ApplyHmc
    \/ EvaluateSchedule
    \/ GetDelta
    \/ Reweight

Spec == Init /\ [][Next]_vars

SpecUpdate == InitUpdate /\ [][UpdateSamplesLogWeights]_vars

\* ------------------------------------------------ the composite kernel alone

\* The start of a run of the composite kernel: every combination of move
\* types, at every annealing step.
InitKernel == InitWith(KernelConfigs, Densities, {"identity"}, InitSamples,
                       {UniformLogWeights}, Steps)

SpecKernel == InitKernel /\ [][ApplyMarkovKernel]_vars

\* ------------------------------------------------------- resampling alone

\* A batch whose particles are all different.
LabelledSamples == MapSeq(LAMBDA i : i, NumBatch)

ResampleSamples == AllSamples \cup {LabelledSamples}

\* Log-weights of the weights 0, 1 and 3 in every arrangement but all zero,
\* and the normalized uniform weights.
ResampleLogWeights ==
    {MapSeq(LAMBDA i : <<w[i], 1>>, NumBatch) :
        w \in {v \in [1..NumBatch -> {0, 1, 3}] : \E i \in 1..NumBatch : v[i] # 0}}
    \cup {UniformLogWeights}

ResampleThresholds == {<<-1, 2>>, <<0, 1>>, <<1, 2>>, <<1, 1>>, <<3, 2>>, <<2, 1>>}

InitResample == InitWith({KernelConfig(0, 0, 1, 0)},
                         {run_experiment_densities("Flat", 0, "Flat", 0)},
                         {"identity"}, ResampleSamples, ResampleLogWeights, {0})

\* A call of optionally_resample on the current batch and weights.
OptionallyResample ==
    /\ ncalls < MaxCalls
    /\ \E resample_threshold \in ResampleThresholds :
         LET subkey == Split(key, 2)[2]
             r == optionally_resample(subkey, log_weights, samples,
                                      resample_threshold)
         IN /\ last' = Call("optionally_resample",
                            [key |-> subkey, log_weights |-> log_weights,
                             samples |-> samples,
                             resample_threshold |-> resample_threshold], r)
            /\ samples' = last'.out.out[1]
            /\ log_weights' = last'.out.out[2]
    /\ key' = Split(key, 2)[1]
    /\ ncalls' = ncalls + 1
    /\ UNCHANGED <<density_state, step, env>>

SpecResample == InitResample /\ [][OptionallyResample]_vars

\* --------------------------------------- resampling over every random draw

\* Number of particles in the batches the resamplers are run on.
NumParticles == 3

\* A batch whose particles are all different: particle i is i.
LabelledParticles == MapSeq(LAMBDA i : i, NumParticles)

\* Log-weights of the weights 0, 1 and 3 in every arrangement but all zero.
ParticleLogWeights ==
    {MapSeq(LAMBDA i : <<w[i], 1>>, NumParticles) :
        w \in {v \in [1..NumParticles -> {0, 1, 3}] :
                  \E i \in 1..NumParticles : v[i] # 0}}

\* Every index vector jax.random.permutation can shuffle N rows with.
PermutationIndices ==
    {MapSeq(LAMBDA i : f[i], NumParticles) :
        f \in {g \in [1..NumParticles -> 1..NumParticles] :
                  \A i, j \in 1..NumParticles : g[i] = g[j] => i = j}}

\* Every uniform variate on the grid: u in [0, 1).
UniformDraws == {<<n, UniformGrid>> : n \in 0..(UniformGrid - 1)}

\* Every index vector jax.random.categorical can return for log_weights:
\* N independent indices (0-based) of particles of non-zero weight.
CategoricalDraws(lw) ==
    {MapSeq(LAMBDA i : f[i] - 1, NumParticles) :
        f \in [1..NumParticles -> {j \in 1..NumParticles : lw[j] # NegInf}]}

InitDraws == InitWith({KernelConfig(0, 0, 1, 0)},
                      {run_experiment_densities("Flat", 0, "Flat", 0)},
                      {"identity"}, {LabelledParticles}, ParticleLogWeights, {0})

\* A call of optionally_resample whose random calls return any permutation
\* and any uniform variate.
OptionallyResampleDrawn ==
    /\ ncalls < MaxCalls
    /\ \E resample_threshold \in ResampleThresholds, ind \in PermutationIndices,
          u \in UniformDraws :
         LET subkey == Split(key, 2)[2]
             draws == [ind |-> ind, ind_samples |-> ind, u |-> u,
                       keys |-> systematic_draws(subkey, NumParticles).keys]
             r == optionally_resample_with(draws, subkey, log_weights, samples,
                                           resample_threshold)
         IN /\ last' = Call("optionally_resample",
                            [key |-> subkey, log_weights |-> log_weights,
                             samples |-> samples, draws |-> draws,
                             resample_threshold |-> resample_threshold], r)
            /\ samples' = last'.out.out[1]
            /\ log_weights' = last'.out.out[2]
    /\ key' = Split(key, 2)[1]
    /\ ncalls' = ncalls + 1
    /\ UNCHANGED <<density_state, step, env>>

\* A call of systematic_resampling whose random calls return any permutation
\* and any uniform variate.
SystematicResampling ==
    /\ ncalls < MaxCalls
    /\ \E ind \in PermutationIndices, u \in UniformDraws :
         LET subkey == Split(key, 2)[2]
             draws == [ind |-> ind, ind_samples |-> ind, u |-> u,
                       keys |-> systematic_draws(subkey, NumParticles).keys]
             r == systematic_resampling_with(draws, log_weights, samples)
         IN /\ last' = Call("systematic_resampling",
                            [key |-> subkey, log_weights |-> log_weights,
                             samples |-> samples, draws |-> draws], r)
            /\ samples' = last'.out.samples
            /\ log_weights' = last'.out.log_weights
    /\ key' = Split(key, 2)[1]
    /\ ncalls' = ncalls + 1
    /\ UNCHANGED <<density_state, step, env>>

\* A call of simple_resampling whose categorical draw returns any indices of
\* particles of non-zero weight.
SimpleResampling ==
    /\ ncalls < MaxCalls
    /\ \E indices \in CategoricalDraws(log_weights) :
         LET subkey == Split(key, 2)[2]
             r == simple_resampling_with(indices, log_weights, samples)
         IN /\ last' = Call("simple_resampling",
                            [key |-> subkey, log_weights |-> log_weights,
                             samples |-> samples, indices |-> indices], r)
            /\ samples' = last'.out.samples
            /\ log_weights' = last'.out.log_weights
    /\ key' = Split(key, 2)[1]
    /\ ncalls' = ncalls + 1
    /\ UNCHANGED <<density_state, step, env>>

\* A call of log_effective_sample_size on the current log-weights.
LogEffectiveSampleSize ==
    /\ ncalls < MaxCalls
    /\ last' = Call("log_effective_sample_size", [log_weights |-> log_weights],
                    [log_ess |-> log_effective_sample_size(log_weights)])
    /\ ncalls' = ncalls + 1
    /\ UNCHANGED <<samples, log_weights, key, density_state, step, env>>

NextDraws ==
    \/ OptionallyResampleDrawn
    \/ SystematicResampling
    \/ SimpleResampling
    \/ LogEffectiveSampleSize

SpecDraws == InitDraws /\ [][NextDraws]_vars

\* ------------------------------------------------- transport step alone

\* Batches of particles at 0, 1 and 2.
TransportSamples == [1..NumBatch -> {0, 1, 2}]

TransportDensities ==
    Densities \cup {run_experiment_densities("Laplace", 0, "Laplace", 2)}

\* The start of a run of the primitives of the transport step, from every
\* annealing step but the last.
InitTransport == InitWith({KernelConfig(0, 0, 1, 0)}, TransportDensities, FlowParams,
                          TransportSamples, {UniformLogWeights, SkewedLogWeights},
                          0..(num_temps - 2))

\* get_delta_path_grad at the next step on the current batch.
GetDeltaPathGrad ==
    /\ ncalls < MaxCalls
    /\ step < env.ld.num_temps - 1
    /\ LET r == get_delta_path_grad(samples, env.flow_params, env.ld, step + 1,
                                    density_state)
       IN /\ last' = Call("get_delta_path_grad",
                          [samples |-> samples, step |-> step + 1,
                           flow_params |-> env.flow_params,
                           density_state |-> density_state], r)
          /\ density_state' = IF last'.out.raised THEN density_state
                              ELSE last'.out.density_state
    /\ ncalls' = ncalls + 1
    /\ UNCHANGED <<samples, log_weights, key, step, env>>

\* The log-weight vectors a caller can pass along with the batch: the
\* batch's own, one of length 1, and one an entry too long.
WeightVectors == {log_weights, <<log_weights[1]>>, Append(log_weights, <<1, 1>>)}

\* Delta vectors of length 1 and of the batch's length.
DeltaVectors == UNION {[1..k -> {-1, 0, 1}] : k \in {1, NumBatch}}

\* transport_free_energy_estimator at the next step, with or without the
\* path gradient, with log-weights of any of the shapes.
TransportFreeEnergyEstimator ==
    /\ ncalls < MaxCalls
    /\ step < env.ld.num_temps - 1
    /\ \E use_path_gradient \in BOOLEAN, lw \in WeightVectors :
         LET r == transport_free_energy_estimator(samples, lw,
                      env.flow_params, env.ld, step + 1, use_path_gradient,
                      density_state)
         IN /\ last' = Call("transport_free_energy_estimator",
                            [samples |-> samples, log_weights |-> lw,
                             step |-> step + 1, flow_params |-> env.flow_params,
                             use_path_gradient |-> use_path_gradient,
                             density_state |-> density_state], r)
            /\ density_state' = IF last'.out.raised THEN density_state
                                ELSE last'.out.density_state
    /\ ncalls' = ncalls + 1
    /\ UNCHANGED <<samples, log_weights, key, step, env>>

\* reweight at the next step with log-weights of any of the shapes; the
\* caller keeps its own weights.
ReweightShaped ==
    /\ ncalls < MaxCalls
    /\ step < env.ld.num_temps - 1
    /\ \E lw \in WeightVectors :
         LET r == reweight(lw, samples, env.flow_params, env.ld, step + 1,
                           density_state)
         IN /\ last' = Call("reweight",
                            [samples |-> samples, log_weights |-> lw,
                             step |-> step + 1, density_state |-> density_state], r)
            /\ density_state' = IF last'.out.raised THEN density_state
                                ELSE last'.out.density_state
    /\ ncalls' = ncalls + 1
    /\ UNCHANGED <<samples, log_weights, key, step, env>>

\* reweight_no_flow on log-weights and deltas of any of the shapes.
ReweightNoFlow ==
    /\ ncalls < MaxCalls
    /\ \E lw \in WeightVectors, deltas \in DeltaVectors :
         last' = Call("reweight_no_flow",
                      [log_weights |-> lw, deltas |-> deltas],
                      reweight_no_flow(lw, deltas))
    /\ ncalls' = ncalls + 1
    /\ UNCHANGED <<samples, log_weights, key, density_state, step, env>>

\* get_log_normalizer_increment_no_flow on deltas and log-weights of any of
\* the shapes.
GetLogNormalizerIncrementNoFlow ==
    /\ ncalls < MaxCalls
    /\ \E lw \in WeightVectors, deltas \in DeltaVectors :
         last' = Call("get_log_normalizer_increment_no_flow",
                      [log_weights |-> lw, deltas |-> deltas],
                      get_log_normalizer_increment_no_flow(deltas, lw))
    /\ ncalls' = ncalls + 1
    /\ UNCHANGED <<samples, log_weights, key, density_state, step, env>>

NextTransport ==
    \/ GetDelta
    \/ GetDeltaPathGrad
    \/ TransportFreeEnergyEstimator
    \/ ReweightShaped

SpecTransport == InitTransport /\ [][NextTransport]_vars

\* ------------------------------------- weights and deltas of every shape

\* The start of a run of the primitives that combine log-weights and
\* deltas.
InitShapes == InitWith({KernelConfig(0, 0, 1, 0)},
                       {run_experiment_densities("Laplace", 0, "Laplace", 1)},
                       {"scale"}, TwoPointSamples,
                       {UniformLogWeights, SkewedLogWeights}, {0})

NextShapes ==
    \/ ReweightNoFlow
    \/ GetLogNormalizerIncrementNoFlow
    \/ ReweightShaped
    \/ TransportFreeEnergyEstimator

SpecShapes == InitShapes /\ [][NextShapes]_vars

\* ------------------------------- the annealing loop and reweight_no_flow

\* The start of a run of the annealing loop from normalized and from
\* unnormalized weights.
InitNormalized == InitWith(PipelineConfigs, Densities, FlowParams, TwoPointSamples,
                           {UniformLogWeights, SkewedLogWeights}, {0})

\* reweight_no_flow called on its own before the loop starts.
ReweightNoFlowAtStart == step = 0 /\ ReweightNoFlow

NextNormalized ==
    \/ UpdateSamplesLogWeights
    \/ ReweightNoFlowAtStart

SpecNormalized == InitNormalized /\ [][NextNormalized]_vars

\* ------------------------------------------------- density providers alone

InitDensity == InitWith(PipelineConfigs, Densities, {"identity"}, InitSamples,
                        {UniformLogWeights}, {0})

\* One evaluation of the initial or of the final density on the batch.
EvaluateLogDensity ==
    /\ ncalls < MaxCalls
    /\ \E which \in {"initial", "final"} :
         LET d == env.ld[which]
             r == evaluate_log_density(d, samples, density_state)
         IN /\ last' = Call("evaluate_log_density",
                            [provider |-> d, samples |-> samples,
                             density_state |-> density_state], r)
            /\ density_state' = last'.out.density_state
    /\ ncalls' = ncalls + 1
    /\ UNCHANGED <<samples, log_weights, key, step, env>>

\* One evaluation of BrownianMissingMiddleScales on one particle of shape
\* (32,) or on a batch of shape (num_batch, 32).
EvaluateBrownian ==
    /\ ncalls < MaxCalls
    /\ \E is_target \in BOOLEAN,
          x_shape \in {<<BrownianDim>>, <<NumBatch, BrownianDim>>} :
         LET r == brownian_evaluate_log_density(is_target, x_shape, density_state)
         IN /\ last' = Call("brownian_evaluate_log_density",
                            [is_target |-> is_target, x_shape |-> x_shape,
                             density_state |-> density_state], r)
            /\ density_state' = last'.out.density_state
    /\ ncalls' = ncalls + 1
    /\ UNCHANGED <<samples, log_weights, key, step, env>>

NextDensity == EvaluateLogDensity \/ EvaluateBrownian

SpecDensity == InitDensity /\ [][NextDensity]_vars

\* ------------------------------------------------------------------ claims

IsUpdate == last.op = "update_samples_log_weights"

\* The transformed batch, recomputed from the arguments of the last call.
UpdateTransformed == flow_apply(env.flow_params, last.args.samples).samples

\* The result of reweight, recomputed from the arguments of the last call.
UpdateReweighted ==
    reweight(last.args.log_weights, last.args.samples, env.flow_params, env.ld,
             last.args.step, last.args.density_state)

\* The sub-steps a call with these flags has to make, in order.
ExpectedSubSteps(use_resampling, use_markov) ==
    <<"flow_apply", "reweight">>
    \o (IF use_resampling THEN <<"optionally_resample">> ELSE <<>>)
    \o (IF use_markov THEN <<"markov_kernel_apply">> ELSE <<>>)

\* What leaves the resampling stage of the last call: the resampler's output,
\* or the transformed batch and the reweighted log-weights when it is off.
UpdateStage ==
    IF last.args.use_resampling
    THEN [samples |-> last.out.calls[3].out_samples,
          log_weights |-> last.out.calls[3].out_log_weights]
    ELSE [samples |-> UpdateTransformed,
          log_weights |-> UpdateReweighted.log_weights]

\* C1: update_samples_log_weights makes its sub-steps in the order transform,
\* reweight, conditional resample (when use_resampling), Markov kernel (when
\* use_markov); the resampler receives the transformed samples and the
\* reweighted log-weights, the Markov kernel receives the samples leaving the
\* resampling stage, and the log-weights returned are those leaving the
\* resampling stage.
C1_SubStepOrder ==
    IsUpdate =>
        LET a == last.args
            calls == last.out.calls
        IN /\ MapSeq(LAMBDA i : calls[i].op, Len(calls))
                  = ExpectedSubSteps(a.use_resampling, a.use_markov)
           /\ calls[1].samples = a.samples
           /\ calls[1].out_samples = UpdateTransformed
           /\ calls[2].samples = a.samples
           /\ calls[2].log_weights = a.log_weights
           /\ calls[2].out_log_weights = UpdateReweighted.log_weights
           /\ a.use_resampling =>
                  /\ calls[3].samples = UpdateTransformed
                  /\ calls[3].log_weights = UpdateReweighted.log_weights
           /\ a.use_markov => calls[Len(calls)].samples = UpdateStage.samples
           /\ last.out.log_weights = UpdateStage.log_weights

\* A call with both stages on in which the flow moved the batch, the
\* reweighting changed the weights, the resampler resampled and the kernel
\* moved a particle.
C1_Witness ==
    /\ IsUpdate
    /\ last.args.use_resampling
    /\ last.args.use_markov
    /\ last.out.resampled
    /\ UpdateTransformed # last.args.samples
    /\ UpdateReweighted.log_weights # last.args.log_weights
    /\ UpdateStage.samples # UpdateTransformed
    /\ last.out.samples # UpdateStage.samples

\* C2: a disabled sub-step passes its input through. With use_resampling off
\* the Markov stage receives the transformed samples and the log-weights
\* returned are the reweighted ones; with use_markov off the samples returned
\* are those leaving the resampling stage, the acceptance record is
\* (1.0, 1.0, 1.0) and the counter returned is the one reweight returned.
C2_DisabledPassThrough ==
    IsUpdate =>
        LET a == last.args
            calls == last.out.calls
        IN /\ ~a.use_resampling =>
                  /\ last.out.log_weights = UpdateReweighted.log_weights
                  /\ a.use_markov => calls[Len(calls)].samples = UpdateTransformed
                  /\ ~a.use_markov => last.out.samples = UpdateTransformed
           /\ ~a.use_markov =>
                  /\ last.out.samples = UpdateStage.samples
                  /\ last.out.acceptance_tuple = <<One, One, One>>
                  /\ last.out.density_state = UpdateReweighted.density_state

\* A call without the Markov stage whose resampler resampled and whose
\* reweighting counted evaluations.
C2_Witness ==
    /\ IsUpdate
    /\ ~last.args.use_markov
    /\ last.out.resampled
    /\ last.out.samples # last.args.samples
    /\ last.out.density_state > last.args.density_state

\* C3: every call of the schedule, get_delta, get_delta_no_flow, reweight,
\* update_samples_log_weights, random_walk_metropolis, hmc and the composite
\* kernel returns a counter at least as large as the one it was given, and the
\* counter the loop holds never decreases.
C3_CounterMonotone ==
    /\ last.op # "init" =>
           /\ last.out.density_state >= last.args.density_state
           /\ density_state = last.out.density_state
    /\ density_state >= 0

\* A call of the composite kernel, made after the loop has advanced, that
\* raised the counter.
C3_Witness ==
    /\ last.op = "markov_kernel_apply"
    /\ step > 0
    /\ last.args.density_state > 0
    /\ last.out.density_state > last.args.density_state

\* The number of particles in an input of this shape to the Brownian provider:
\* one for an unbatched particle, the leading dimension for a batch.
BrownianParticles(x_shape) == IF Len(x_shape) = 1 THEN 1 ELSE x_shape[1]

\* C4: an evaluation of N particles raises the counter by exactly N when the
\* provider was built with is_target=True and leaves it unchanged when it was
\* built with is_target=False; run_experiment builds the initial density with
\* is_target=False and the final one with is_target=True.
C4_TargetCounts ==
    /\ last.op = "evaluate_log_density" =>
           last.out.density_state - last.args.density_state
               = IF last.args.provider.is_target THEN Len(last.args.samples) ELSE 0
    /\ last.op = "brownian_evaluate_log_density" =>
           last.out.density_state - last.args.density_state
               = IF last.args.is_target
                 THEN BrownianParticles(last.args.x_shape) ELSE 0
    /\ ~env.ld.initial.is_target
    /\ env.ld.final.is_target

\* An evaluation of the initial density, which leaves the counter alone.
C4_Witness ==
    /\ last.op = "evaluate_log_density"
    /\ ~last.args.provider.is_target
    /\ Len(last.args.samples) = NumBatch
    /\ last.out.density_state = last.args.density_state

IsKernel == last.op = "markov_kernel_apply"

\* C5: within one call of the composite kernel no two consumers of randomness
\* (RWM, HMC, NUTS and each iteration of NUTS) receive the same key, whatever
\* combination of move types is enabled.
C5_NoKeyReuse ==
    IsKernel =>
        LET c == last.out.consumers
        IN \A i, j \in 1..Len(c) : i # j => c[i].key # c[j].key

\* The move types this configuration enables, in the order RWM, HMC, NUTS.
EnabledMoves(config) ==
    (IF config.rwm_steps_per_iter # 0 THEN <<"rwm">> ELSE <<>>)
    \o (IF config.hmc_steps_per_iter # 0 THEN <<"hmc">> ELSE <<>>)
    \o (IF config.nuts_steps_per_iter # 0 THEN <<"nuts">> ELSE <<>>)

\* C6: the composite kernel applies the enabled move types in the order RWM,
\* HMC, third kernel; each move receives the batch the previous enabled move
\* returned (the kernel's input batch for the first), all at the kernel's
\* annealing step, and the kernel returns the batch of the last move.
C6_MoveOrder ==
    IsKernel =>
        LET m == last.out.moves
        IN /\ MapSeq(LAMBDA i : m[i].move, Len(m)) = EnabledMoves(last.args.config)
           /\ \A i \in 1..Len(m) :
                  /\ m[i].temp_step = last.args.step
                  /\ m[i].samples_in = IF i = 1 THEN last.args.samples
                                       ELSE m[i - 1].samples_out
           /\ last.out.samples = IF Len(m) = 0 THEN last.args.samples
                                 ELSE m[Len(m)].samples_out

\* A call with all three move types in which RWM and HMC each moved the batch.
C6_Witness ==
    /\ IsKernel
    /\ Len(last.out.moves) = 3
    /\ last.out.moves[1].samples_out # last.out.moves[1].samples_in
    /\ last.out.moves[2].samples_out # last.out.moves[2].samples_in

\* The slot of a move type in the acceptance record.
AcceptanceSlot(move) == CASE move = "hmc" -> 1 [] move = "rwm" -> 2 [] move = "nuts" -> 3

\* A fraction in [0, 1].
IsRate(f) == f[2] > 0 /\ 0 <= f[1] /\ f[1] <= f[2]

\* C7: the acceptance record is (HMC, RWM, third kernel); a move type with a
\* zero iteration count has 1.0 in its slot and is not applied, so the batch
\* and the counter pass from the move before it to the move after it
\* unchanged; the RWM and HMC slots lie in [0, 1].
C7_AcceptanceLayout ==
    IsKernel =>
        LET m == last.out.moves
            t == last.out.acceptance_tuple
            c == last.args.config
        IN /\ Len(t) = 3
           /\ \A i \in 1..Len(m) : t[AcceptanceSlot(m[i].move)] = m[i].acceptance
           /\ c.hmc_steps_per_iter = 0 =>
                  t[1] = One /\ \A i \in 1..Len(m) : m[i].move # "hmc"
           /\ c.rwm_steps_per_iter = 0 =>
                  t[2] = One /\ \A i \in 1..Len(m) : m[i].move # "rwm"
           /\ c.nuts_steps_per_iter = 0 =>
                  t[3] = One /\ \A i \in 1..Len(m) : m[i].move # "nuts"
           /\ \A i \in 1..Len(m) :
                  /\ m[i].samples_in = IF i = 1 THEN last.args.samples
                                       ELSE m[i - 1].samples_out
                  /\ m[i].density_state_in = IF i = 1 THEN last.args.density_state
                                             ELSE m[i - 1].density_state_out
           /\ last.out.samples = IF Len(m) = 0 THEN last.args.samples
                                 ELSE m[Len(m)].samples_out
           /\ last.out.density_state = IF Len(m) = 0 THEN last.args.density_state
                                       ELSE m[Len(m)].density_state_out
           /\ IsRate(t[1])
           /\ IsRate(t[2])

\* A call with RWM and HMC on and the third kernel off, in which RWM and HMC
\* report different rates.
C7_Witness ==
    /\ IsKernel
    /\ last.args.config.nuts_steps_per_iter = 0
    /\ Len(last.out.moves) = 2
    /\ last.out.moves[1].acceptance # last.out.moves[2].acceptance
    /\ last.out.acceptance_tuple
           = <<last.out.moves[2].acceptance, last.out.moves[1].acceptance, One>>

\* C8: with the third kernel enabled the counter the composite kernel returns
\* is the counter after the RWM and HMC stages, the one the same call returns
\* with the third kernel disabled, although the third kernel evaluates the
\* density.
C8_NutsCounterNotThreaded ==
    (IsKernel /\ last.args.config.nuts_steps_per_iter # 0) =>
        /\ last.out.density_state
               = MarkovTransitionKernel(
                     [last.args.config EXCEPT !.nuts_steps_per_iter = 0], env.ld,
                     last.args.step, last.args.key, last.args.samples,
                     last.args.density_state).density_state
        /\ last.out.nuts_evaluations > 0

\* A call with the third kernel and an earlier move that raised the counter.
C8_Witness ==
    /\ IsKernel
    /\ last.args.config.nuts_steps_per_iter # 0
    /\ Len(last.out.moves) >= 2
    /\ last.out.density_state > last.args.density_state
    /\ last.out.nuts_evaluations > 0

IsResample == last.op = "optionally_resample"

\* threshold_fraction * N as a fraction.
ThresholdTimesN == <<last.args.resample_threshold[1] * Len(last.args.log_weights),
                     last.args.resample_threshold[2]>>

\* The log-weights a resampling returns: log(1/N) each.
ResampledLogWeights(N) == MapSeq(LAMBDA i : <<1, N>>, N)

\* C9: optionally_resample resamples exactly when ESS < threshold_fraction * N;
\* when it does not, it returns (samples, log_weights) as given; when it does,
\* it returns a batch drawn from the given particles first and the uniform
\* log-weights second.
C9_ResampleIffBelow ==
    IsResample =>
        LET a == last.args
            N == Len(a.log_weights)
            out == last.out.out
        IN /\ last.out.resampled <=> FracLess(essl(a.log_weights), ThresholdTimesN)
           /\ ~last.out.resampled => out = <<a.samples, a.log_weights>>
           /\ last.out.resampled =>
                  /\ Len(out[1]) = N
                  /\ \A i \in 1..N : \E j \in 1..N : out[1][i] = a.samples[j]
                  /\ out[2] = ResampledLogWeights(N)

\* A call whose ESS equals the threshold exactly, with weights that are not
\* uniform: it does not resample.
C9_Witness ==
    /\ IsResample
    /\ essl(last.args.log_weights) = Reduce(ThresholdTimesN[1], ThresholdTimesN[2])
    /\ last.args.log_weights # UniformLogWeights
    /\ last.args.samples = LabelledSamples
    /\ ~last.out.resampled
    /\ last.out.out = <<last.args.samples, last.args.log_weights>>

\* A valid log-weight vector: no NaN, no +inf, and one weight that is not 0.
ValidLogWeights(lw) ==
    /\ \A i \in 1..Len(lw) : ~IsNaN(lw[i]) /\ lw[i] # PosInf
    /\ \E i \in 1..Len(lw) : lw[i] # NegInf

\* C10: on a valid log-weight vector optionally_resample never resamples with
\* threshold_fraction = 0 and always resamples with threshold_fraction > 1.
C10_ThresholdExtremes ==
    (IsResample /\ ValidLogWeights(last.args.log_weights)) =>
        /\ last.args.resample_threshold[1] = 0 => ~last.out.resampled
        /\ last.args.resample_threshold[1] > last.args.resample_threshold[2] =>
               last.out.resampled

\* A call with uniform weights, whose ESS is N, and a threshold above 1: it
\* resamples.
C10_Witness ==
    /\ IsResample
    /\ last.args.log_weights = UniformLogWeights
    /\ last.args.resample_threshold[1] > last.args.resample_threshold[2]
    /\ last.out.resampled

\* ------------------------------------------------------------------- C11

\* The last call was optionally_resample with every draw chosen freely.
IsResampleDrawn == last.op = "optionally_resample" /\ "draws" \in DOMAIN last.args

\* One entry 0 and all others -inf.
IsOneHot(lw) ==
    \E k \in DOMAIN lw : lw[k] = One /\ \A i \in DOMAIN lw : i # k => lw[i] = NegInf

\* The particle that carries the whole weight of one-hot log-weights.
Survivor(lw, batch) == batch[CHOOSE k \in DOMAIN lw : lw[k] = One]

\* C11: one-hot log-weights with threshold 0.5 have ESS 1, trigger
\* resampling, and every output particle is the surviving input particle,
\* whatever the permutation and the uniform draw.
C11_OneHotSurvivor ==
    (IsResampleDrawn /\ IsOneHot(last.args.log_weights)
       /\ last.args.resample_threshold = <<1, 2>>)
    => /\ essl(last.args.log_weights) = One
       /\ last.out.resampled
       /\ \A i \in DOMAIN samples :
            samples[i] = Survivor(last.args.log_weights, last.args.samples)

\* ------------------------------------------------------------------- C12

\* The last call ran a resampler: systematic_resampling or simple_resampling
\* directly, or the resampling branch of optionally_resample.
Resampled ==
    \/ last.op \in {"systematic_resampling", "simple_resampling"}
    \/ (IsResampleDrawn /\ last.out.resampled)

\* C12: whenever resampling is performed the returned log-weights are exactly
\* uniform, every one of the N entries -log(N), whatever the input weights.
C12_UniformAfterResampling ==
    Resampled =>
        /\ Len(log_weights) = Len(last.args.log_weights)
        /\ \A i \in DOMAIN log_weights : log_weights[i] = <<1, Len(last.args.log_weights)>>

\* Systematic resampling of weights that were not uniform.
C12_Witness ==
    /\ last.op = "systematic_resampling"
    /\ last.args.log_weights[1] # last.args.log_weights[2]
    /\ \A i \in DOMAIN log_weights : log_weights[i] = <<1, NumParticles>>

\* ------------------------------------------------------------------- C13

\* The last call was one of the three resamplers, with every draw chosen
\* freely.
IsResampler ==
    \/ last.op \in {"systematic_resampling", "simple_resampling"}
    \/ IsResampleDrawn

\* The row indices the last resampler gathered its output with.
GatherIndices ==
    IF last.op = "systematic_resampling" THEN last.out.new_idx
    ELSE IF last.op = "simple_resampling" THEN last.out.indices
    ELSE <<>>

\* C13: resampling keeps the number of particles, every output particle is a
\* copy of an input particle, and the gather indices lie in 0..N-1.
C13_OnlyCopies ==
    IsResampler =>
        /\ Len(samples) = Len(last.args.samples)
        /\ \A i \in DOMAIN samples :
             \E j \in DOMAIN last.args.samples : samples[i] = last.args.samples[j]
        /\ \A i \in DOMAIN GatherIndices :
             GatherIndices[i] \in 0..(Len(last.args.samples) - 1)

\* Systematic resampling that repeated one particle and dropped another.
C13_Witness ==
    /\ last.op = "systematic_resampling"
    /\ Len(samples) = NumParticles
    /\ \E i, j \in DOMAIN samples : i # j /\ samples[i] = samples[j]
    /\ \E j \in DOMAIN last.args.samples :
         \A i \in DOMAIN samples : samples[i] # last.args.samples[j]

\* ------------------------------------------------------------------- C14

\* C14: with the identity transform get_delta returns the deltas and the
\* counter get_delta_no_flow returns for the same samples, densities, step
\* and input counter.
C14_IdentityFlowIsNoFlow ==
    (last.op = "get_delta" /\ last.args.flow_params = "identity")
    => LET nf == get_delta_no_flow(last.args.samples, env.ld, last.args.step,
                                   last.args.density_state)
       IN /\ last.out.deltas = nf.deltas
          /\ last.out.density_state = nf.density_state

\* get_delta under the identity transform with a delta that is not zero and
\* a counter that moved.
C14_Witness ==
    /\ last.op = "get_delta"
    /\ last.args.flow_params = "identity"
    /\ \E i \in DOMAIN last.out.deltas : last.out.deltas[i] # 0
    /\ last.out.density_state > last.args.density_state
    /\ last.out.deltas = get_delta_no_flow(last.args.samples, env.ld, last.args.step,
                                           last.args.density_state).deltas

\* ------------------------------------------------------------------- C15

\* C15: get_delta_path_grad completes and returns the per-particle values
\* get_delta returns on the same arguments, and so
\* transport_free_energy_estimator returns the same value with
\* use_path_gradient=True as with use_path_gradient=False.
C15_PathGradSameValue ==
    /\ last.op = "get_delta_path_grad"
       => /\ ~last.out.raised
          /\ last.out.deltas = get_delta(last.args.samples, last.args.flow_params,
                                         env.ld, last.args.step,
                                         last.args.density_state).deltas
    /\ (last.op = "transport_free_energy_estimator" /\ last.args.use_path_gradient)
       => /\ ~last.out.raised
          /\ last.out.estimate =
                 transport_free_energy_estimator(last.args.samples,
                     last.args.log_weights, last.args.flow_params, env.ld,
                     last.args.step, FALSE, last.args.density_state).estimate

\* ------------------------------------------------------------------- C16

\* What one evaluation of the schedule on a batch adds to the counter: the
\* batch size for each of the two densities that counts.
ScheduleCount(batch) ==
    (BoolInt(env.ld.final.is_target) + BoolInt(env.ld.initial.is_target)) * Len(batch)

\* C16: a function that evaluates densities returns a counter updated for
\* every evaluation it made; get_delta, get_delta_no_flow and
\* get_delta_path_grad each evaluate the schedule twice, and
\* get_delta_path_grad returns the same total as get_delta.
C16_CounterAccountsAll ==
    /\ last.op \in {"get_delta", "get_delta_no_flow"}
       => last.out.density_state
            = last.args.density_state + 2 * ScheduleCount(last.args.samples)
    /\ last.op = "get_delta_path_grad"
       => /\ ~last.out.raised
          /\ last.out.density_state
               = last.args.density_state + 2 * ScheduleCount(last.args.samples)
          /\ last.out.density_state
               = get_delta(last.args.samples, last.args.flow_params, env.ld,
                           last.args.step, last.args.density_state).density_state

\* ------------------------------------------------------------------- C17

\* The last call combined a log-weight vector with a delta vector.
CombinesWeightsAndDeltas ==
    last.op \in {"reweight_no_flow", "get_log_normalizer_increment_no_flow",
                 "transport_free_energy_estimator", "reweight"}

\* The length of the delta vector the last call combined the weights with:
\* the one passed in, or one delta per particle.
DeltaLen ==
    IF "deltas" \in DOMAIN last.args THEN Len(last.args.deltas)
    ELSE Len(last.args.samples)

\* C17: a primitive that combines log-weights with deltas of a different
\* shape raises, also when one of them has length 1; it never returns a
\* broadcast result.
C17_ShapeMismatchRaises ==
    (CombinesWeightsAndDeltas /\ Len(last.args.log_weights) # DeltaLen)
    => last.out.raised

\* ------------------------------------------------------------------- C18

\* The number of entries of log-weights lw whose weight is not zero.
NonZeroCount(lw) == Cardinality({i \in DOMAIN lw : lw[i] # NegInf})

\* C18: for non-negative weights not all zero the effective sample size that
\* log_effective_sample_size returns the log of lies in [1, N]; it is N when
\* all N weights are equal and 1 when exactly one weight is not zero.
C18_EssRange ==
    last.op = "log_effective_sample_size"
    => LET lw == last.args.log_weights
           N == Len(lw)
           log_ess == last.out.log_ess
       IN /\ IsFinite(log_ess)
          /\ ~LogLess(log_ess, <<1, 1>>)
          /\ ~LogLess(<<N, 1>>, log_ess)
          /\ (\A i \in DOMAIN lw : lw[i] = lw[1]) => log_ess = <<N, 1>>
          /\ NonZeroCount(lw) = 1 => log_ess = <<1, 1>>

\* An effective sample size strictly between 1 and N.
C18_Witness ==
    /\ last.op = "log_effective_sample_size"
    /\ LogLess(<<1, 1>>, last.out.log_ess)
    /\ LogLess(last.out.log_ess, <<Len(last.args.log_weights), 1>>)
    /\ NonZeroCount(last.args.log_weights) = Len(last.args.log_weights)

\* ------------------------------------------------------------------- C19

\* The exponentials of the log-weights sum to 1: logsumexp = 0.
Normalized(lw) == logsumexp(lw) = <<1, 1>>

\* C19: reweight_no_flow returns normalized log-weights for finite
\* log-weights and deltas, and every call of update_samples_log_weights
\* returns normalized log-weights, whichever branches it takes and whether or
\* not the weights it started from were normalized.
C19_NormalizedWeights ==
    /\ (last.op = "reweight_no_flow" /\ ~last.out.raised)
       => Normalized(last.out.log_weights)
    /\ IsUpdate
       => /\ Normalized(last.out.log_weights)
          /\ Normalized(log_weights)
          /\ Normalized(last.out.calls[2].out_log_weights)

\* A second step of the loop that did not resample, started from weights
\* that were not normalized, and returned weights that are not uniform.
C19_Witness ==
    /\ IsUpdate
    /\ step = 2
    /\ ~last.out.resampled
    /\ \E i \in DOMAIN log_weights : log_weights[i] # log_weights[1]
    /\ Normalized(log_weights)

\* ------------------------------------------------------------------- C20

\* The last call was get_log_normalizer_increment_no_flow and it returned.
IsIncrement ==
    last.op = "get_log_normalizer_increment_no_flow" /\ ~last.out.raised

\* The weight of particle i: exp(lw[i]) / sum_j exp(lw[j]), a fraction
\* n / d given as the pair <<n, d>>.
WeightOf(lw, i) ==
    LET total == FracSum(lw)
    IN Reduce(lw[i][1] * total[2], lw[i][2] * total[1])

\* exp(-delta) for delta in ln 2 units: the fraction 2^(-delta).
ExpNeg(delta) == IF delta >= 0 THEN <<1, Pow2(delta)>> ELSE <<Pow2(-delta), 1>>

\* The fraction a * b.
FracMul(a, b) == Reduce(a[1] * b[1], a[2] * b[2])

\* C20: get_log_normalizer_increment_no_flow returns 0 when every delta is
\* 0, for normalized and unnormalized finite log-weights, and in general the
\* log of the sum over the particles of weight_i * exp(-delta_i).
C20_IncrementIsWeightedLogSum ==
    IsIncrement
    => LET lw == last.args.log_weights
           deltas == last.args.deltas
       IN /\ (\A i \in DOMAIN deltas : deltas[i] = 0) => last.out.increment = <<1, 1>>
          /\ last.out.increment
               = FracSum(MapSeq(LAMBDA i : FracMul(WeightOf(lw, i), ExpNeg(deltas[i])), Len(lw)))

\* Zero deltas with unnormalized weights of the batch's length.
C20_Witness ==
    /\ IsIncrement
    /\ Len(last.args.deltas) = NumBatch
    /\ \A i \in DOMAIN last.args.deltas : last.args.deltas[i] = 0
    /\ ~Normalized(last.args.log_weights)
    /\ last.out.increment = <<1, 1>>

\* ------------------------------------ the schedule for every num_temps

\* Largest total number of temperatures of an experiment.
MaxNumTemps == 4

\* Batches of particles at 0 and n - 1: with the densities below, every
\* interpolated log-density of an experiment with n temperatures is a whole
\* number of ln 2 units.
ScheduleSamples(n) == [1..NumBatch -> {0, n - 1}]

\* Schedules of n temperatures between a base and a target that differ, and
\* between a base and a target that are the same function.
ScheduleDensities(n) ==
    {density_by_step(d, n) :
        d \in {run_experiment_densities("Laplace", 0, "Laplace", n - 1),
               run_experiment_densities("Laplace", n - 1, "Laplace", n - 1),
               run_experiment_densities("Flat", 0, "Laplace", 0)}}

\* The start of an experiment with any number of temperatures above 1.
InitSchedule ==
    \E n \in 2..MaxNumTemps :
        InitWith({KernelConfig(0, 0, 1, 0)}, ScheduleDensities(n), {"identity"},
                 ScheduleSamples(n), {UniformLogWeights, SkewedLogWeights}, {0})

\* An evaluation of the annealing schedule at any step of the experiment on
\* the current batch.
EvaluateScheduleAt ==
    /\ ncalls < MaxCalls
    /\ \E s \in 0..(env.ld.num_temps - 1) :
         LET r == GeometricAnnealingSchedule(env.ld, s, samples, density_state)
         IN /\ last' = Call("schedule",
                            [samples |-> samples, step |-> s, ld |-> env.ld,
                             density_state |-> density_state], r)
            /\ density_state' = last'.out.density_state
    /\ ncalls' = ncalls + 1
    /\ UNCHANGED <<samples, log_weights, key, step, env>>

\* get_delta or get_delta_no_flow at any step index of the experiment on the
\* current batch.
GetDeltaAt ==
    /\ ncalls < MaxCalls
    /\ \E s \in 0..(env.ld.num_temps - 1), with_flow \in BOOLEAN,
          flow_params \in {"identity", "scale"} :
         LET r == IF with_flow
                  THEN get_delta(samples, flow_params, env.ld, s, density_state)
                  ELSE get_delta_no_flow(samples, env.ld, s, density_state)
         IN /\ last' = Call(IF with_flow THEN "get_delta" ELSE "get_delta_no_flow",
                            [samples |-> samples, step |-> s, ld |-> env.ld,
                             flow_params |-> flow_params,
                             density_state |-> density_state], r)
            /\ density_state' = last'.out.density_state
    /\ ncalls' = ncalls + 1
    /\ UNCHANGED <<samples, log_weights, key, step, env>>

\* get_log_normalizer_increment at the next step on the current batch and
\* weights.
GetLogNormalizerIncrement ==
    /\ ncalls < MaxCalls
    /\ step < env.ld.num_temps - 1
    /\ LET r == get_log_normalizer_increment(samples, log_weights, env.flow_params,
                                             env.ld, step + 1, density_state)
       IN /\ last' = Call("get_log_normalizer_increment",
                          [samples |-> samples, log_weights |-> log_weights,
                           step |-> step + 1, ld |-> env.ld,
                           flow_params |-> env.flow_params,
                           density_state |-> density_state], r)
          /\ density_state' = last'.out.density_state
    /\ ncalls' = ncalls + 1
    /\ UNCHANGED <<samples, log_weights, key, step, env>>

NextSchedule ==
    \/ EvaluateScheduleAt
    \/ GetDeltaAt

\* The schedule and the deltas alone.
SpecSchedule == InitSchedule /\ [][NextSchedule]_vars

NextAnnealing ==
    \/ UpdateSamplesLogWeights
    \/ GetLogNormalizerIncrement
    \/ GetDeltaAt

\* The start of an experiment with at most the configured number of
\* temperatures.
InitAnnealing ==
    \E n \in 2..num_temps :
        InitWith({KernelConfig(0, 0, 1, 0)}, ScheduleDensities(n), {"identity"},
                 ScheduleSamples(n), {UniformLogWeights, SkewedLogWeights}, {0})

\* The annealing loop of such an experiment.
SpecAnnealing == InitAnnealing /\ [][NextAnnealing]_vars

\* ------------------------------------------------------------------- C21

\* The schedule anneals between a base and a target that are the same
\* function, over two temperatures.
Degenerate(ld) ==
    /\ ld.num_temps = 2
    /\ ld.initial.density = ld.final.density
    /\ ld.initial.loc = ld.final.loc

\* Every entry of a vector of deltas is 0.
AllZero(deltas) == \A i \in DOMAIN deltas : deltas[i] = 0

\* softmax of the log-weights lw, entry by entry.
NormalizedOf(lw) == MapSeq(LAMBDA i : WeightOf(lw, i), Len(lw))

\* C21: with the same function as base and target, num_temps = 2 and the
\* identity transform, the step t = 1 has delta 0 for every particle and
\* log-normalizer increment 0, and update_samples_log_weights without
\* resampling and without the Markov kernel returns the input particles and
\* the normalized input log-weights.
C21_DegenerateStepIsIdentity ==
    (/\ Degenerate(env.ld)
     /\ env.flow_params = "identity"
     /\ last.op # "init"
     /\ last.args.step = 1)
    => /\ (last.op \in {"get_delta", "get_delta_no_flow"}
             /\ last.args.flow_params = "identity")
          => AllZero(last.out.deltas)
       /\ last.op = "get_log_normalizer_increment"
          => /\ ~last.out.raised
             /\ AllZero(last.out.deltas)
             /\ last.out.increment = <<1, 1>>
       /\ (last.op = "update_samples_log_weights"
             /\ ~last.args.use_resampling /\ ~last.args.use_markov)
          => /\ last.out.samples = last.args.samples
             /\ last.out.log_weights = NormalizedOf(last.args.log_weights)
             /\ Normalized(last.args.log_weights)
                  => last.out.log_weights = last.args.log_weights

\* The degenerate step taken by update_samples_log_weights on distinct
\* particles with unnormalized weights.
C21_Witness ==
    /\ Degenerate(env.ld)
    /\ env.flow_params = "identity"
    /\ last.op = "update_samples_log_weights"
    /\ last.args.step = 1
    /\ ~last.args.use_resampling /\ ~last.args.use_markov
    /\ last.args.samples[1] # last.args.samples[NumBatch]
    /\ ~Normalized(last.args.log_weights)
    /\ last.out.samples = last.args.samples

\* ------------------------------------------------------------------- C22

\* The last call was an evaluation of the annealing schedule.
IsSchedule == last.op = "schedule"

\* C22: the schedule returns one value per particle, equal to
\* (1 - beta) * log_density_initial + beta * log_density_final with
\* beta = step / (num_temps - 1); at step 0 that is the initial log-density
\* and at step num_temps - 1 the final one, for every num_temps > 1.
C22_ScheduleInterpolates ==
    IsSchedule
    => LET ld == last.args.ld
           s == last.args.step
           x == last.args.samples
           final_step == ld.num_temps - 1
           values == last.out.values
       IN /\ ld.num_temps > 1
          /\ last.out.beta = <<s, final_step>>
          /\ Len(values) = Len(x)
          /\ \A i \in DOMAIN x :
               /\ final_step * values[i]
                    = (final_step - s) * log_pdf(ld.initial, x[i])
                      + s * log_pdf(ld.final, x[i])
               /\ s = 0 => values[i] = log_pdf(ld.initial, x[i])
               /\ s = final_step => values[i] = log_pdf(ld.final, x[i])

\* The schedule of the longest experiment evaluated at its last step, on a
\* particle the two densities disagree about.
C22_Witness ==
    /\ IsSchedule
    /\ last.args.ld.num_temps = MaxNumTemps
    /\ last.args.step = MaxNumTemps - 1
    /\ \E i \in DOMAIN last.args.samples :
         /\ log_pdf(last.args.ld.initial, last.args.samples[i])
              # log_pdf(last.args.ld.final, last.args.samples[i])
         /\ last.out.values[i] = log_pdf(last.args.ld.final, last.args.samples[i])

\* ------------------------------------------------------------------- C23

\* The last call was hmc.
IsHmc == last.op = "hmc"

\* n whole leapfrog steps: a position step, then a momentum step.
RECURSIVE WholeSteps(_)
WholeSteps(n) ==
    IF n <= 0 THEN <<>> ELSE <<"position", "momentum">> \o WholeSteps(n - 1)

\* The sub-steps of one HMC iteration as the code makes them: the last
\* leapfrog step is a whole position step and half a momentum step.
HmcOps(L) ==
    <<"draw", "half_momentum">> \o WholeSteps(L - 1) \o <<"position", "half_momentum">>

\* The sub-steps with no position step before the last half momentum step.
HmcOpsNoLastPosition(L) ==
    <<"draw", "half_momentum">> \o WholeSteps(L - 1) \o <<"half_momentum">>

\* The schedule's value at one particle.
ScheduleValue(ld, temp_step, x) ==
    GeometricAnnealingSchedule(ld, temp_step, <<x>>, 0).values[1]

\* The Metropolis correction of iteration it compares the input position
\* with the drawn momentum against the final position with the final
\* momentum.
ComparesEnds(it, ld, temp_step) ==
    \A i \in DOMAIN it.previous_samples :
        it.delta_log_prob[i]
          = (ScheduleValue(ld, temp_step, it.proposed_samples[i])
               - ((it.final_momentum[i] * it.final_momentum[i]) \div 2))
            - (ScheduleValue(ld, temp_step, it.previous_samples[i])
                 - ((it.initial_momentum[i] * it.initial_momentum[i]) \div 2))

\* With one leapfrog iteration the proposal is one position step from the
\* input, made with the momentum after its first half step.
OnePositionStep(it, ld, temp_step, epsilon) ==
    \A i \in DOMAIN it.previous_samples :
        LET g == grad_log_density(ld, temp_step, <<it.previous_samples[i]>>, 0).grad[1]
        IN it.proposed_samples[i]
             = it.previous_samples[i]
               + epsilon * (it.initial_momentum[i] + (g * epsilon) \div 2)

\* C23 as amended: one HMC iteration with num_leapfrog_iters = L draws the
\* momentum, makes half a momentum step at the input position, L - 1 whole
\* leapfrog steps (position, then momentum at the new position) and a last
\* leapfrog step of a whole position step followed by half a momentum step:
\* L position steps in all; the correction compares the two ends.
C23_HmcOrder ==
    IsHmc
    => \A k \in DOMAIN last.out.steps :
         LET it == last.out.steps[k]
             L == last.args.num_leapfrog_iters
             epsilon == InterpolatedStepSize(env.config.hmc_step_sizes, last.args.step)
         IN /\ it.ops = HmcOps(L)
            /\ Cardinality({j \in DOMAIN it.ops : it.ops[j] = "position"}) = L
            /\ ComparesEnds(it, env.ld, last.args.step)
            /\ L = 1 => OnePositionStep(it, env.ld, last.args.step, epsilon)

\* An HMC iteration of two leapfrog iterations that moved a particle.
C23_Witness ==
    /\ IsHmc
    /\ last.args.num_leapfrog_iters = 2
    /\ last.out.steps[1].ops = HmcOps(2)
    /\ \E i \in DOMAIN last.args.samples :
         last.out.steps[1].proposed_samples[i] # last.args.samples[i]

\* C23 as stated: after the L - 1 leapfrog steps there is only a final half
\* momentum step, so that with L = 1 the proposal is the input position.
C23_NoLastPositionStep ==
    IsHmc
    => \A k \in DOMAIN last.out.steps :
         LET it == last.out.steps[k]
             L == last.args.num_leapfrog_iters
         IN /\ it.ops = HmcOpsNoLastPosition(L)
            /\ L = 1 => it.proposed_samples = it.previous_samples

\* ----------------------------------------------- the two Metropolis moves

NextMoves ==
    \/ ApplyRandomWalkMetropolis
    \/ ApplyHmc

\* Number of seeds the two moves are run with.
NumMoveSeeds == 8

\* The start of a run of the two moves: one or two leapfrog iterations,
\* every density, every annealing step.
InitMoves ==
    /\ samples \in InitSamples
    /\ log_weights = UniformLogWeights
    /\ \E seed \in 0..(NumMoveSeeds - 1) : key = PRNGKey(seed)
    /\ density_state = 0
    /\ step \in Steps
    /\ env \in [ld : Densities,
                 config : {KernelConfig(1, 1, 1, 0), KernelConfig(1, 1, 2, 0)},
                 flow_params : {"identity"}]
    /\ ncalls = 0
    /\ last = [op |-> "init"]

\* random_walk_metropolis and hmc on their own.
SpecMoves == InitMoves /\ [][NextMoves]_vars

\* ------------------------------------------------------------------- C24

\* The last call was random_walk_metropolis or hmc.
IsMove == last.op \in {"random_walk_metropolis", "hmc"}

\* The log-density difference of particle i in Metropolis step it, proposed
\* minus current, with the momentum terms for HMC.
MoveDelta(it, i) ==
    LET position == ScheduleValue(env.ld, last.args.step, it.proposed_samples[i])
                      - ScheduleValue(env.ld, last.args.step, it.previous_samples[i])
    IN IF last.op = "hmc"
       THEN position - ((it.final_momentum[i] * it.final_momentum[i]) \div 2)
                     + ((it.initial_momentum[i] * it.initial_momentum[i]) \div 2)
       ELSE position

\* The density has zero gradient everywhere.
ZeroGradient(ld) == ld.initial.density = "Flat" /\ ld.final.density = "Flat"

\* C24: in RWM and HMC particle i is accepted iff its log-density difference
\* is strictly greater than minus its own exponential draw; an accepted
\* particle takes its proposed value and a rejected one keeps its previous
\* value; a difference of 0 is accepted whenever the draw is strictly
\* positive, and HMC on a zero-gradient density then reports rate 1.
C24_PerParticleAccept ==
    IsMove
    => /\ \A k \in DOMAIN last.out.steps :
            LET it == last.out.steps[k]
            IN \A i \in DOMAIN it.previous_samples :
                 /\ it.is_accepted[i] <=> MoveDelta(it, i) > -it.exponential_rvs[i]
                 /\ it.samples[i] = IF it.is_accepted[i] THEN it.proposed_samples[i]
                                    ELSE it.previous_samples[i]
                 /\ (MoveDelta(it, i) = 0 /\ it.exponential_rvs[i] > 0)
                      => it.is_accepted[i]
                 /\ (last.op = "hmc" /\ ZeroGradient(env.ld)) => MoveDelta(it, i) = 0
       /\ (/\ last.op = "hmc"
           /\ ZeroGradient(env.ld)
           /\ \A k \in DOMAIN last.out.steps :
                \A i \in DOMAIN last.args.samples :
                    last.out.steps[k].exponential_rvs[i] > 0)
          => last.out.acceptance = <<1, 1>>

\* HMC on the constant density with strictly positive draws: a proposal
\* moved and every proposal was accepted.
C24_Witness ==
    /\ last.op = "hmc"
    /\ ZeroGradient(env.ld)
    /\ \A i \in DOMAIN last.args.samples :
         last.out.steps[1].exponential_rvs[i] > 0
    /\ \E i \in DOMAIN last.args.samples :
         last.out.samples[i] # last.args.samples[i]
    /\ last.out.acceptance = <<1, 1>>

\* ------------------------------------------------------------------- C25

\* C25: every evaluation of the schedule evaluates the final density first
\* and the initial density second on the same batch, the counter threaded
\* through both, and adds exactly N to the counter for N particles at every
\* step, step 0 included.
C25_ScheduleCountsN ==
    IsSchedule
    => LET N == Len(last.args.samples)
           evaluated == last.out.evaluated
       IN /\ Len(evaluated) = 2
          /\ evaluated[1] = <<"final", last.args.density_state>>
          /\ evaluated[2] = <<"initial", last.args.density_state + N>>
          /\ last.out.density_state = last.args.density_state + N
          /\ density_state = last.out.density_state

\* The schedule evaluated at step 0, where the final density has coefficient
\* 0, and the counter grown by the batch size.
C25_Witness ==
    /\ IsSchedule
    /\ last.args.step = 0
    /\ last.out.beta[1] = 0
    /\ last.out.density_state = last.args.density_state + NumBatch

\* ------------------------------------------------------------------- C26

\* The last call was get_delta or get_delta_no_flow.
IsDelta == last.op \in {"get_delta", "get_delta_no_flow"}

\* The coefficient beta = n / d lies in [0, 1].
InUnitInterval(beta) == 0 <= beta[1] /\ beta[1] <= beta[2]

\* The coefficients the last call interpolated with.
BetasUsed ==
    IF IsSchedule THEN {last.out.beta}
    ELSE IF IsDelta THEN {last.out.betas[1], last.out.betas[2]}
    ELSE {}

InitPermute ==
    /\ samples = LabelledParticles
    /\ log_weights \in ParticleLogWeights
    /\ \E seed \in 0..(NumMoveSeeds - 1) : key = PRNGKey(seed)
    /\ density_state = 0
    /\ step = 0
    /\ env \in [ld : {run_experiment_densities("Flat", 0, "Flat", 0)},
                 config : {KernelConfig(0, 0, 1, 0)}, flow_params : {"identity"}]
    /\ ncalls = 0
    /\ last = [op |-> "init"]

\* A call of systematic_resampling with the next key of the run.
SystematicResamplingKeyed ==
    /\ ncalls <= MaxCalls
    /\ LET subkey == Split(key, 2)[2]
           r == systematic_resampling(subkey, log_weights, samples)
       IN /\ last' = Call("systematic_resampling",
                          [key |-> subkey, log_weights |-> log_weights,
                           samples |-> samples], r)
          /\ samples' = last'.out.samples
          /\ log_weights' = last'.out.log_weights
    /\ key' = Split(key, 2)[1]
    /\ ncalls' = ncalls + 1
    /\ UNCHANGED <<density_state, step, env>>

SpecPermute == InitPermute /\ [][SystematicResamplingKeyed]_vars

\* ------------------------------------------------------------------- C27

\* C27: the permutation at the start of systematic_resampling shuffles the
\* particles and the log-weights alike: the permuted particles are the input
\* particles in another order, and each is still paired with the log-weight
\* it came with.
C27_PermutationKeepsPairs ==
    last.op = "systematic_resampling"
    => LET N == Len(last.args.samples)
           p_samples == last.out.p_samples
           p_log_weights == last.out.p_log_weights
       IN /\ Len(p_samples) = N /\ Len(p_log_weights) = N
          /\ \A j \in 1..N : \E i \in 1..N : p_samples[i] = last.args.samples[j]
          /\ \A i \in 1..N : \E j \in 1..N :
               /\ p_samples[i] = last.args.samples[j]
               /\ p_log_weights[i] = last.args.log_weights[j]

\* Distinct particles with differing weights shuffled out of their order.
C27_Witness ==
    /\ last.op = "systematic_resampling"
    /\ last.out.p_samples # last.args.samples
    /\ last.out.p_log_weights # last.args.log_weights
    /\ \A i, j \in DOMAIN last.args.samples :
         i # j => last.args.samples[i] # last.args.samples[j]

\* ------------------------------------------------------------------- C28

\* The counter before Metropolis step or HMC iteration k of the last call.
CounterBefore(k) ==
    IF k = 1 THEN last.args.density_state ELSE last.out.steps[k - 1].density_state

\* Every step of the last call added amount to the counter, and the call
\* returned the counter of its last step.
EachStepAdds(amount) ==
    /\ \A k \in DOMAIN last.out.steps :
         last.out.steps[k].density_state = CounterBefore(k) + amount
    /\ last.out.density_state
         = last.args.density_state + Len(last.out.steps) * amount

\* C28: with a target that counts N per evaluation and a base that counts 0,
\* update_samples_log_weights without the Markov kernel adds exactly 2N,
\* random_walk_metropolis adds exactly 2N per Metropolis step, and hmc adds
\* exactly (num_leapfrog_iters + 3) * N per HMC iteration, whatever the data.
C28_CounterAmounts ==
    LET N == Len(last.args.samples)
    IN /\ (IsUpdate /\ ~last.args.use_markov)
          => last.out.density_state = last.args.density_state + 2 * N
       /\ last.op = "random_walk_metropolis"
          => /\ Len(last.out.steps) = last.args.num_mh_steps
             /\ EachStepAdds(2 * N)
       /\ IsHmc
          => /\ Len(last.out.steps) = last.args.num_hmc_iters
             /\ EachStepAdds((last.args.num_leapfrog_iters + 3) * N)

\* Two HMC iterations of two leapfrog iterations each, started from a
\* counter the loop had already raised.
C28_Witness ==
    /\ IsHmc
    /\ last.args.num_leapfrog_iters = 2
    /\ last.args.num_hmc_iters = 2
    /\ last.args.density_state > 0
    /\ last.out.density_state = last.args.density_state + 10 * NumBatch

\* ------------------------------------------------------------------- C29

\* The last call was systematic_resampling.
IsSystematic == last.op = "systematic_resampling"

\* The weight exp(lw[j]) of particle j and the total weight, as integers
\* (the log-weights of the batch are logs of whole numbers).
WeightTotal(lw) == FracSum(lw)[1]

\* How often particle j of the input is in the output batch.
Copies(j) ==
    Cardinality({i \in DOMAIN last.out.samples :
                    last.out.samples[i] = last.args.samples[j]})

\* floor(N * W_j) for the normalized weight W_j of particle j.
FloorCopies(lw, j) == (Len(lw) * lw[j][1]) \div WeightTotal(lw)

\* ceil(N * W_j).
CeilCopies(lw, j) ==
    FloorCopies(lw, j) + (IF (Len(lw) * lw[j][1]) % WeightTotal(lw) = 0 THEN 0 ELSE 1)

\* C29: for every uniform draw u in [0, 1), u = 0 included, and every
\* permutation, systematic_resampling puts particle j in the output
\* floor(N * W_j) or ceil(N * W_j) times, and never a particle of weight 0.
C29_LowVariance ==
    IsSystematic
    => \A j \in DOMAIN last.args.samples :
         LET lw == last.args.log_weights
         IN /\ Copies(j) \in {FloorCopies(lw, j), CeilCopies(lw, j)}
            /\ lw[j] = NegInf => Copies(j) = 0

\* ------------------------------------------- the optimizer's schedule

\* Longest list of boundaries or scales in an optimization config.
MaxBoundaries == 2

\* The lists a config can hold under a _boundaries or a _scales key.
BoundaryLists == UNION {[1..k -> {100, 200}] : k \in 0..MaxBoundaries}
ScaleLists == UNION {[1..k -> {1, 5}] : k \in 1..MaxBoundaries}

\* The optimization configs: each method's pair of keys is present or
\* absent.
OptimizationConfigs ==
    LET Entries(method) ==
            {<<>>} \cup {[boundaries |-> b, scales |-> c] :
                            b \in BoundaryLists, c \in ScaleLists}
    IN [{"snf", "craft"} -> Entries("snf")]

\* method + "_boundaries" in config.
HasBoundaries(method, config) == config[method] # <<>>

\* The dict filled by for key, value in zip(boundaries, scales): zip stops at
\* the shorter list and a later pair with the same key replaces an earlier.
ZipDict(boundaries, scales) ==
    LET m == Min(Len(boundaries), Len(scales))
        Last(k) == CHOOSE i \in 1..m :
                       /\ boundaries[i] = k
                       /\ \A j \in (i + 1)..m : boundaries[j] # k
    IN [k \in {boundaries[i] : i \in 1..m} |-> scales[Last(k)]]

\* boundaries_and_scales: the "snf" branch fills snf_boundaries_and_scales
\* and returns craft_boundaries_and_scales, a local of the function (the
\* "craft" branch assigns it) that is unbound there; the "craft" branch
\* returns the dict it filled; without the key the result is None.
boundaries_and_scales(method, config) ==
    IF HasBoundaries(method, config)
    THEN IF method = "snf" THEN Raised("UnboundLocalError")
         ELSE IF method = "craft"
         THEN [raised |-> FALSE,
               value |-> ZipDict(config.craft.boundaries, config.craft.scales)]
         ELSE [raised |-> FALSE, value |-> "None"]
    ELSE [raised |-> FALSE, value |-> "None"]

\* The start of prepare_outer_loop with any optimization config.
InitOptimizer ==
    /\ samples = <<>>
    /\ log_weights = <<>>
    /\ key = PRNGKey(0)
    /\ density_state = 0
    /\ step = 0
    /\ env \in [optimization_config : OptimizationConfigs]
    /\ ncalls = 0
    /\ last = [op |-> "init"]

\* get_optimizer's second argument: boundaries_and_scales for the method.
BoundariesAndScales ==
    /\ ncalls < MaxCalls
    /\ \E method \in {"snf", "craft"} :
         last' = Call("boundaries_and_scales",
                      [method |-> method, config |-> env.optimization_config],
                      boundaries_and_scales(method, env.optimization_config))
    /\ ncalls' = ncalls + 1
    /\ UNCHANGED <<samples, log_weights, key, density_state, step, env>>

SpecOptimizer == InitOptimizer /\ [][BoundariesAndScales]_vars

\* ------------------------------------------------------------------- C30

\* C30: for the methods "snf" and "craft" boundaries_and_scales never ends
\* with an error; it returns the mapping from the method's boundaries to the
\* method's scales when the method's _boundaries key is in the config, and
\* None when it is not.
C30_BoundariesAndScales ==
    last.op = "boundaries_and_scales"
    => LET method == last.args.method
           config == last.args.config
       IN /\ ~last.out.raised
          /\ last.out.value
               = IF HasBoundaries(method, config)
                 THEN ZipDict(config[method].boundaries, config[method].scales)
                 ELSE "None"

====
